---- MODULE Spec2Model ----
(***************************************************************************)
(* Model of the ai-movie-recap generator: the batch driver run_generation, *)
(* the per-movie pipeline process_movie (src/src/generator.rs), the        *)
(* retiming computation of ffmpeg_make_adjusted_clip (src/src/ffmpeg.rs)   *)
(* and the planner retry classifier (src/src/api/openai.rs).               *)
(*                                                                         *)
(* Durations are integers in milliseconds.  Every external collaborator    *)
(* (HTTP request, ffmpeg/ffprobe command, file rename) is a step whose     *)
(* outcome is chosen nondeterministically among the outcomes its Rust      *)
(* signature allows: Err(..) (propagated by `?`), Ok(false), Ok(true).     *)
(***************************************************************************)
EXTENDS Integers, Sequences, FiniteSets, TLC

\* ------------------------------------------------------------------------
\* Bounds of the model
\* ------------------------------------------------------------------------
MaxRuns == 2
MaxPlan == 2
MaxSeg == 20

\* ------------------------------------------------------------------------
\* Program constants
\* ------------------------------------------------------------------------
NumScriptAttempts == 7
MaxBgmParts == 200
BgmSkipMs == 40000
BgmMinSongMs == 60000
BgmMinAvailMs == 1000
BgmEpsMs == 10

\* Directory listing of movies/: two movies and one entry that is not .mp4.
Movies == {"m1", "m2"}
DirOrder == <<"m1", "notes", "m2">>
IsMp4(e) == e \in Movies

VARIABLES
    run,        \* number of the current run_generation invocation
    pc,         \* position of the driver / pipeline
    cur,        \* index in DirOrder of the entry being handled (0: none yet)
    runResult,  \* "none" | "count" | "err": what run_generation returned
    processed,  \* the counter run_generation returns
    inMovies,   \* [Movies -> BOOLEAN]: source file present in movies/
    retired,    \* [Movies -> BOOLEAN]: source file present in movies_retired/
    srt,        \* [Movies -> BOOLEAN]: scripts/srt_files/<t>.srt exists
    srtMod,     \* [Movies -> "absent"|"partial"|"full"]: <t>_modified.srt
    script,     \* [Movies -> "absent"|"small"|"ok"]: <t>_summary.txt
    clips,      \* the files of clips/ that carry the title in process
    output,     \* [Movies -> "none"|"narration"|"mixed"]: output/<t>.mp4
    vertical,   \* [Movies -> BOOLEAN]: tiktok_output/<t>_vertical.mp4 exists
    loc,        \* local variables of the running process_movie
    result,     \* [Movies -> "none"|"skipped"|"true"|"false"|"err"]
    ops,        \* <<operation, index>> invoked for the entry being handled
    fails,      \* <<failure, index>> observed for the entry being handled
    planLog,    \* planner calls made for the entry being handled
    startHad,   \* [Movies -> set of artifacts present when the run started]
    rt,         \* one retiming query and its answer
    cls,        \* one classifier query and its answer
    nz,         \* one subtitle file and its normalized form
    gui,        \* the desktop front end: its flags, the log hook, its workers
    sl          \* one movie title and its slug

disk == <<inMovies, retired, srt, srtMod, script, clips, output, vertical>>
hist == <<ops, fails, planLog, startHad>>
pure == <<rt, cls, nz, gui, sl>>
vars == <<run, pc, cur, runResult, processed, inMovies, retired, srt, srtMod,
          script, clips, output, vertical, loc, result, ops, fails, planLog,
          startHad, rt, cls, nz, gui, sl>>

\* ------------------------------------------------------------------------
\* Planner retry classifier (src/src/api/openai.rs)
\* Strings are sequences of one-character strings.
\* ------------------------------------------------------------------------
UpperChars ==
    <<"A", "B", "C", "D", "E", "F", "G", "H", "I", "J", "K", "L", "M", "N",
      "O", "P", "Q", "R", "S", "T", "U", "V", "W", "X", "Y", "Z">>
LowerChars ==
    <<"a", "b", "c", "d", "e", "f", "g", "h", "i", "j", "k", "l", "m", "n",
      "o", "p", "q", "r", "s", "t", "u", "v", "w", "x", "y", "z">>
Str_context_length_exceeded ==
    <<"c", "o", "n", "t", "e", "x", "t", "_", "l", "e", "n", "g", "t", "h",
      "_", "e", "x", "c", "e", "e", "d", "e", "d">>
Str_invalid_json ==
    <<"i", "n", "v", "a", "l", "i", "d", "_", "j", "s", "o", "n">>
Str_context ==
    <<"c", "o", "n", "t", "e", "x", "t">>

\* char::to_lowercase restricted to ASCII letters.
LowerChar(c) ==
    IF \E i \in 1..Len(UpperChars) : UpperChars[i] = c
    THEN LowerChars[CHOOSE i \in 1..Len(UpperChars) : UpperChars[i] = c]
    ELSE c

ToLowerIdentity(s) == s

\* str::to_lowercase
ToLower(s) == [i \in 1..Len(s) |-> LowerChar(s[i])]

\* str::contains
Contains(s, t) ==
    \E k \in 0..(Len(s) - Len(t)) : SubSeq(s, k + 1, k + Len(t)) = t

\* The trigger phrases of the message test (openai.rs:94-105).
Triggers == {
    <<"t", "o", "o", " ", "l", "a", "r", "g", "e">>,
    <<"m", "e", "s", "s", "a", "g", "e", " ", "i", "s", " ", "t", "o", "o",
      " ", "l", "o", "n", "g">>,
    <<"m", "a", "x", "i", "m", "u", "m", " ", "c", "o", "n", "t", "e", "x",
      "t", " ", "l", "e", "n", "g", "t", "h">>,
    <<"c", "o", "n", "t", "e", "x", "t", " ", "l", "e", "n", "g", "t", "h">>,
    <<"r", "e", "d", "u", "c", "e">>,
    <<"t", "o", "k", "e", "n">>,
    <<"r", "e", "q", "u", "e", "s", "t", " ", "i", "s", " ", "t", "o", "o",
      " ", "l", "a", "r", "g", "e">>,
    <<"u", "n", "i", "c", "o", "d", "e", " ", "d", "e", "c", "o", "d", "e",
      " ", "e", "r", "r", "o", "r">>,
    <<"i", "n", "v", "a", "l", "i", "d", " ", "u", "n", "i", "c", "o", "d",
      "e">>,
    <<"i", "n", "v", "a", "l", "i", "d", " ", "b", "o", "d", "y">>
}

\* Error codes a failure payload may carry ("absent": no string code).
CodeIds == {"ctx_lower", "ctx_upper", "ctx_mixed", "invalid_json", "has_context", "auth", "rate", "quota", "absent"}
CodeText(id) ==
    CASE id = "ctx_lower" ->
    <<"c", "o", "n", "t", "e", "x", "t", "_", "l", "e", "n", "g", "t", "h",
      "_", "e", "x", "c", "e", "e", "d", "e", "d">>
      [] id = "ctx_upper" ->
    <<"C", "O", "N", "T", "E", "X", "T", "_", "L", "E", "N", "G", "T", "H",
      "_", "E", "X", "C", "E", "E", "D", "E", "D">>
      [] id = "ctx_mixed" ->
    <<"C", "o", "n", "t", "e", "x", "t", "_", "L", "e", "n", "g", "t", "h",
      "_", "E", "x", "c", "e", "e", "d", "e", "d">>
      [] id = "invalid_json" ->
    <<"i", "n", "v", "a", "l", "i", "d", "_", "j", "s", "o", "n">>
      [] id = "has_context" ->
    <<"M", "o", "d", "e", "l", "_", "C", "o", "n", "t", "e", "x", "t", "_",
      "W", "i", "n", "d", "o", "w">>
      [] id = "auth" ->
    <<"i", "n", "v", "a", "l", "i", "d", "_", "a", "p", "i", "_", "k", "e",
      "y">>
      [] id = "rate" ->
    <<"r", "a", "t", "e", "_", "l", "i", "m", "i", "t", "_", "e", "x", "c",
      "e", "e", "d", "e", "d">>
      [] id = "quota" ->
    <<"i", "n", "s", "u", "f", "f", "i", "c", "i", "e", "n", "t", "_", "q",
      "u", "o", "t", "a">>
      [] OTHER -> <<>>

\* Error messages a failure payload may carry ("absent": no string message).
MsgIds == {"key", "tpm", "maxctx", "large", "quota", "reduce", "unicode", "absent"}
MsgText(id) ==
    CASE id = "key" ->
    <<"I", "n", "c", "o", "r", "r", "e", "c", "t", " ", "A", "P", "I", " ",
      "k", "e", "y", " ", "p", "r", "o", "v", "i", "d", "e", "d">>
      [] id = "tpm" ->
    <<"R", "a", "t", "e", " ", "l", "i", "m", "i", "t", " ", "r", "e", "a",
      "c", "h", "e", "d", " ", "o", "n", " ", "t", "o", "k", "e", "n", "s",
      " ", "p", "e", "r", " ", "m", "i", "n">>
      [] id = "maxctx" ->
    <<"T", "h", "i", "s", " ", "m", "o", "d", "e", "l", "'", "s", " ", "m",
      "a", "x", "i", "m", "u", "m", " ", "c", "o", "n", "t", "e", "x", "t",
      " ", "l", "e", "n", "g", "t", "h", " ", "i", "s", " ", "8", "1", "9",
      "2">>
      [] id = "large" ->
    <<"R", "e", "q", "u", "e", "s", "t", " ", "T", "o", "o", " ", "L", "a",
      "r", "g", "e">>
      [] id = "quota" ->
    <<"Y", "o", "u", " ", "e", "x", "c", "e", "e", "d", "e", "d", " ", "y",
      "o", "u", "r", " ", "c", "u", "r", "r", "e", "n", "t", " ", "q", "u",
      "o", "t", "a">>
      [] id = "reduce" ->
    <<"P", "l", "e", "a", "s", "e", " ", "R", "E", "D", "U", "C", "E", " ",
      "y", "o", "u", "r", " ", "p", "r", "o", "m", "p", "t">>
      [] id = "unicode" ->
    <<"I", "n", "v", "a", "l", "i", "d", " ", "U", "n", "i", "c", "o", "d",
      "e", " ", "i", "n", " ", "r", "e", "q", "u", "e", "s", "t">>
      [] OTHER -> <<>>


\* A failure payload: the raw response body after serde_json parsing.
\*   shape "empty":    resp_json.is_empty()
\*   shape "not_json": serde_json::from_str fails
\*   shape "no_error": a JSON value without an "error" member
\*   shape "error":    root.error present, with optional string code/message
Payloads ==
    {[shape |-> s, code |-> "absent", msg |-> "absent"] :
        s \in {"empty", "not_json", "no_error"}}
    \cup {[shape |-> "error", code |-> c, msg |-> m] : c \in CodeIds, m \in MsgIds}

\* openai.rs:82-90
CodeMatches(code) ==
    /\ code # "absent"
    /\ LET code_lower == ToLower(CodeText(code))
       IN  \/ code_lower = Str_context_length_exceeded
           \/ code_lower = Str_invalid_json
           \/ Contains(code_lower, Str_context)

\* openai.rs:92-109
MsgMatches(msg) ==
    /\ msg # "absent"
    /\ LET msg_lower == ToLower(MsgText(msg))
       IN  \E t \in Triggers : Contains(msg_lower, t)

openai_resp_should_retry_without_script(p) ==
    IF p.shape # "error" THEN FALSE
    ELSE CodeMatches(p.code) \/ MsgMatches(p.msg)

\* ------------------------------------------------------------------------
\* Retiming computation of ffmpeg_make_adjusted_clip (src/src/ffmpeg.rs)
\* start_s, end_s: integer seconds; narration_dur: milliseconds.
\* Intermediate f64 values are exact rationals, held in ticks of 1/8000 s
\* (so that narration_dur * 1.75 / 2 is an integer); a speed is a fraction
\* <<numerator, denominator>> with a positive denominator.
\* ------------------------------------------------------------------------
TicksPerSec == 8000
TicksPerMs == 8
MinDurMs == 100

MaxSpeedupOne == <<1, 1>>

\* MAX_VIDEO_SPEEDUP = 1.75, and the hard bounds 0.05 and 20.0
MAX_VIDEO_SPEEDUP == <<7, 4>>
SpeedFloor == <<1, 20>>
SpeedCeil == <<20, 1>>

FracLess(a, b) == a[1] * b[2] < b[1] * a[2]
FracLeq(a, b) == a[1] * b[2] <= b[1] * a[2]
FracEq(a, b) == a[1] * b[2] = b[1] * a[2]

RoundTicksDown(x) == x \div TicksPerSec

\* f64::round (half away from zero) of a tick count, as i32 seconds
RoundTicks(x) ==
    IF x >= 0 THEN (x + TicksPerSec \div 2) \div TicksPerSec
    ELSE -((-x + TicksPerSec \div 2) \div TicksPerSec)

ClampSpeedNoFloor(speed) ==
    IF FracLess(SpeedCeil, speed) THEN SpeedCeil ELSE speed

\* ffmpeg.rs:164-169
ClampSpeed(speed) ==
    LET s1 == IF FracLess(speed, SpeedFloor) THEN SpeedFloor ELSE speed
    IN  IF FracLess(SpeedCeil, s1) THEN SpeedCeil ELSE s1

CappedSpeedAlwaysMax(use_start, use_end, narration_dur) == MAX_VIDEO_SPEEDUP

CappedSpeedNoReclamp(use_start, use_end, narration_dur) ==
    <<(use_end - use_start) * 1000, narration_dur>>

\* ffmpeg.rs:144-148: the speed of the rounded window, capped again
CappedSpeed(use_start, use_end, narration_dur) ==
    LET sp0 == <<(use_end - use_start) * 1000, narration_dur>>
    IN  IF FracLess(MAX_VIDEO_SPEEDUP, sp0) THEN MAX_VIDEO_SPEEDUP ELSE sp0

RejectedOnlyNarration(orig_seg_dur, narration_dur) == narration_dur <= MinDurMs

\* ffmpeg.rs:101: a segment or a narration of at most 0.1 s is refused
Rejected(orig_seg_dur, narration_dur) ==
    orig_seg_dur <= MinDurMs \/ narration_dur <= MinDurMs

\* ffmpeg.rs:110-148: the window and speed when the speed cap applies
CappedWindow(start_s, end_s, narration_dur) ==
    LET orig == (end_s - start_s) * TicksPerSec
        lo == start_s * TicksPerSec
        hi == end_s * TicksPerSec
        d0 == (narration_dur * TicksPerMs * MAX_VIDEO_SPEEDUP[1]) \div MAX_VIDEO_SPEEDUP[2]
        d1 == IF d0 > orig THEN orig ELSE d0
        desired_src_dur == IF d1 < TicksPerSec THEN TicksPerSec ELSE d1
        center == (lo + hi) \div 2
        half == desired_src_dur \div 2
        ns0 == center - half
        ne0 == center + half
        ns1 == IF ns0 < lo THEN lo ELSE ns0
        ne1 == IF ns0 < lo THEN lo + desired_src_dur ELSE ne0
        ne2 == IF ne1 > hi THEN hi ELSE ne1
        ns2 == IF ne1 > hi THEN hi - desired_src_dur ELSE ns1
        ns3 == IF ns2 < lo THEN lo ELSE ns2
        ne3 == IF ne2 > hi THEN hi ELSE ne2
        use_start == RoundTicks(ns3)
        ue0 == RoundTicks(ne3)
        use_end == IF ue0 <= use_start THEN use_start + 1 ELSE ue0
    IN  [use_start |-> use_start, use_end |-> use_end,
         speed |-> CappedSpeed(use_start, use_end, narration_dur)]

\* ffmpeg.rs:100-169: accepted?, the window to cut and the speed applied
ffmpeg_make_adjusted_clip(start_s, end_s, narration_dur) ==
    LET orig_seg_dur == (end_s - start_s) * 1000
        naive == <<orig_seg_dur, narration_dur>>
    IN  IF Rejected(orig_seg_dur, narration_dur)
        THEN [ok |-> FALSE, capped |-> FALSE, use_start |-> start_s,
              use_end |-> end_s, speed |-> <<0, 1>>]
        ELSE IF FracLess(MAX_VIDEO_SPEEDUP, naive)
        THEN LET w == CappedWindow(start_s, end_s, narration_dur)
             IN  [ok |-> TRUE, capped |-> TRUE, use_start |-> w.use_start,
                  use_end |-> w.use_end, speed |-> ClampSpeed(w.speed)]
        ELSE [ok |-> TRUE, capped |-> FALSE, use_start |-> start_s,
              use_end |-> end_s, speed |-> ClampSpeed(naive)]


\* ------------------------------------------------------------------------
\* Subtitle normalization (generator.rs:52-84). A line is a sequence of
\* one-character strings, without its line terminator.
\* ------------------------------------------------------------------------
Digits == <<"0", "1", "2", "3", "4", "5", "6", "7", "8", "9">>
DigitChars == {Digits[i] : i \in 1..10}
DigitVal(c) == CHOOSE d \in 0..9 : Digits[d + 1] = c
Chars(s) == {s[i] : i \in 1..Len(s)}

Arrow == <<" ", "-", "-", ">", " ">>
TagOpen == <<"<", "i", ">">>
TagClose == <<"<", "/", "i", ">">>

StartsWithAt(s, i, pat) ==
    /\ i + Len(pat) - 1 <= Len(s)
    /\ SubSeq(s, i, i + Len(pat) - 1) = pat

\* str::replace(pat, ""): the matches are found left to right and the
\* result is not scanned again.
RECURSIVE RemoveFrom(_, _, _)
RemoveFrom(s, i, pat) ==
    IF i > Len(s) THEN <<>>
    ELSE IF StartsWithAt(s, i, pat) THEN RemoveFrom(s, i + Len(pat), pat)
    ELSE <<s[i]>> \o RemoveFrom(s, i + 1, pat)
Remove(s, pat) == RemoveFrom(s, 1, pat)

\* str::split(pat): the parts between the matches, empty parts included.
RECURSIVE SplitFrom(_, _, _, _)
SplitFrom(s, from, i, pat) ==
    IF i > Len(s) THEN <<SubSeq(s, from, Len(s))>>
    ELSE IF StartsWithAt(s, i, pat)
         THEN <<SubSeq(s, from, i - 1)>>
                  \o SplitFrom(s, i + Len(pat), i + Len(pat), pat)
    ELSE SplitFrom(s, from, i + 1, pat)
Split(s, pat) == SplitFrom(s, 1, 1, pat)

\* str::split([':', ',']): the parts between any of the characters.
RECURSIVE SplitAnyFrom(_, _, _, _)
SplitAnyFrom(s, from, i, seps) ==
    IF i > Len(s) THEN <<SubSeq(s, from, Len(s))>>
    ELSE IF s[i] \in seps
         THEN <<SubSeq(s, from, i - 1)>> \o SplitAnyFrom(s, i + 1, i + 1, seps)
    ELSE SplitAnyFrom(s, from, i + 1, seps)
SplitAny(s, seps) == SplitAnyFrom(s, 1, 1, seps)

RECURSIVE DigitsValue(_, _)
DigitsValue(s, n) ==
    IF n = 0 THEN 0 ELSE 10 * DigitsValue(s, n - 1) + DigitVal(s[n])

\* str::parse::<i32>(): an optional sign, then at least one digit and
\* nothing else. The fields drawn have at most three digits, so neither the
\* range check of the parse nor the i32 overflow of hh * 3600 is reached.
ParseI32(s) ==
    LET signed == Len(s) > 0 /\ s[1] \in {"+", "-"}
        body == IF signed THEN Tail(s) ELSE s
        wellFormed == Len(body) > 0 /\ \A k \in 1..Len(body) : body[k] \in DigitChars
        v == IF ~wellFormed THEN 0
             ELSE IF signed /\ s[1] = "-" THEN 0 - DigitsValue(body, Len(body))
             ELSE DigitsValue(body, Len(body))
    IN  [ok |-> wellFormed, val |-> v]

None == [some |-> FALSE, val |-> 0]
Some(v) == [some |-> TRUE, val |-> v]

timestamp_to_secondsRounded(ts) ==
    LET parts == SplitAny(ts, {":", ","})
    IN  IF Len(parts) # 4 THEN None
        ELSE LET hh == ParseI32(parts[1])
                 mm == ParseI32(parts[2])
                 ss == ParseI32(parts[3])
                 ms == ParseI32(parts[4])
             IN  IF ~(hh.ok /\ mm.ok /\ ss.ok) THEN None
                 ELSE Some(hh.val * 3600 + mm.val * 60 + ss.val
                          + (IF ms.ok /\ ms.val >= 500 THEN 1 ELSE 0))

\* generator.rs:52-61: the fourth field is counted but never read
timestamp_to_seconds(ts) ==
    LET parts == SplitAny(ts, {":", ","})
    IN  IF Len(parts) # 4 THEN None
        ELSE LET hh == ParseI32(parts[1])
                 mm == ParseI32(parts[2])
                 ss == ParseI32(parts[3])
             IN  IF ~(hh.ok /\ mm.ok /\ ss.ok) THEN None
                 ELSE Some(hh.val * 3600 + mm.val * 60 + ss.val)

\* format!("{}", n) of an i32
RECURSIVE FormatNat(_)
FormatNat(n) ==
    IF n < 10 THEN <<Digits[n + 1]>>
    ELSE FormatNat(n \div 10) \o <<Digits[(n % 10) + 1]>>
FormatI32(n) == IF n < 0 THEN <<"-">> \o FormatNat(0 - n) ELSE FormatNat(n)

\* generator.rs:69-78: one line of the loop, from the line read to the line
\* written
ConvertLine(raw) ==
    LET line == Remove(Remove(raw, TagOpen), TagClose)
        parts == Split(line, Arrow)
    IN  IF Len(parts) = 2 /\ ":" \in Chars(parts[1]) /\ ":" \in Chars(parts[2])
        THEN LET s1 == timestamp_to_seconds(parts[1])
                 s2 == timestamp_to_seconds(parts[2])
             IN  IF s1.some /\ s2.some
                 THEN FormatI32(s1.val) \o Arrow \o FormatI32(s2.val)
                 ELSE line
        ELSE line

convert_srt_timestamps_to_secondsTrailingLine(lines) ==
    [k \in 1..(Len(lines) + 1) |->
        IF k <= Len(lines) THEN ConvertLine(lines[k]) ELSE <<>>]

\* generator.rs:63-84: every line read is written, converted
convert_srt_timestamps_to_seconds(lines) ==
    [k \in 1..Len(lines) |-> ConvertLine(lines[k])]

\* ------------------------------------------------------------------------
\* The slug of a movie title (generator.rs:86-106)
\* ------------------------------------------------------------------------
\* str::ends_with
EndsWith(s, t) == Len(s) >= Len(t) /\ SubSeq(s, Len(s) - Len(t) + 1, Len(s)) = t

\* generator.rs:87-94: quotes and brackets are dropped, a blank becomes a
\* hyphen, every other character is lowered
RECURSIVE SlugBase(_)
SlugBase(title) ==
    IF title = <<>> THEN <<>>
    ELSE LET ch == Head(title)
         IN  IF ch \in {"'", "(", ")"} THEN SlugBase(Tail(title))
             ELSE IF ch = " " THEN <<"-">> \o SlugBase(Tail(title))
             ELSE <<LowerChar(ch)>> \o SlugBase(Tail(title))

\* generator.rs:96-104: one test after the other, each on the string as the
\* tests before it left it
SuffixStep(out, numeral, suffix) ==
    IF EndsWith(out, numeral) THEN out \o suffix ELSE out

\* generator.rs:86-106
parse_movie_title_slug(movie_title) ==
    SuffixStep(SuffixStep(SuffixStep(SlugBase(movie_title),
                                     <<"i", "i">>, <<"-", "2">>),
                          <<"i", "i", "i">>, <<"-", "3">>),
               <<"i", "v">>, <<"-", "4">>)
\* ------------------------------------------------------------------------
\* The batch driver and the per-movie pipeline (src/src/generator.rs)
\* ------------------------------------------------------------------------
\* Pools list_files_with_ext may find in backgroundmusic/ and the duration
\* ffprobe reports for each song.
SongPools == {{}, {"long", "short"}}
SongDurMs(s) ==
    CASE s = "long" -> 90000
      [] s = "brief" -> 61000
      [] OTHER -> 30000

\* Durations ffprobe may report for a narration and for the concatenated track.
NarDurs == {8000}
FinalDurs == {70000}

\* Plan entries the planner may return: a valid range, one starting at 0 and
\* one that ends before it starts.
PlanEntries ==
    {[start |-> 100, end |-> 120], [start |-> 0, end |-> 90],
     [start |-> 100, end |-> 90]}
Plans == UNION {[1..n -> PlanEntries] : n \in 0..MaxPlan}

\* Failure payloads the planner endpoint answers with in the pipeline.
PlanPayloads ==
    {[shape |-> "error", code |-> "ctx_lower", msg |-> "absent"],
     [shape |-> "error", code |-> "auth", msg |-> "key"]}

\* clips/ as seen by one process_movie call: every path under clips/ contains
\* the title, so a call reads and writes the files of its own title only.
EmptyClips ==
    [title |-> "none", files |-> {}, manifest |-> <<>>, bgmList |-> <<>>]

InitLoc ==
    [attempt |-> 0, imsdb_script |-> FALSE, plan |-> <<>>, idx |-> 0,
     made |-> 0, nar_dur |-> 0, songs |-> {}, final_dur |-> 0, covered |-> 0,
     part |-> 0, take |-> 0]

IdleRt == [phase |-> "idle"]
IdleCls == [phase |-> "idle"]
IdleNz == [phase |-> "idle"]
IdleGui == [phase |-> "idle"]
IdleSl == [phase |-> "idle"]

\* The title being processed.
M == DirOrder[cur]

\* The checkpoint artifacts of title m that exist (and pass validation).
Artifacts(m) ==
    (IF srt[m] THEN {<<"srt", 0>>} ELSE {})
    \cup (IF srtMod[m] # "absent" THEN {<<"srt_mod", 0>>} ELSE {})
    \cup (IF script[m] = "ok" THEN {<<"script", 0>>} ELSE {})
    \cup (IF output[m] # "none" THEN {<<"output", 0>>} ELSE {})
    \cup (IF clips.title = m THEN clips.files ELSE {})

\* What a run remembers of the disk at its start: which kinds of checkpoint
\* and clip artifacts of the title existed.
CheckpointKinds ==
    {"srt", "srt_mod", "script", "output", "audio", "clip", "manifest",
     "bgm_part"}
Checkpoints(m) == {a[1] : a \in Artifacts(m)} \cap CheckpointKinds

\* A working directory before the first run: the sources are in movies/,
\* a title may have a script file of 1 to 199 bytes left by an earlier tool.
InitDisk(present, scripts) ==
    /\ inMovies = [m \in Movies |-> m \in present]
    /\ retired = [m \in Movies |-> FALSE]
    /\ srt = [m \in Movies |-> FALSE]
    /\ srtMod = [m \in Movies |-> "absent"]
    /\ script \in [Movies -> scripts \cup {"absent"}]
    /\ \A m \in present : script[m] \in scripts
    /\ \A m \in Movies \ present : script[m] = "absent"
    /\ clips = EmptyClips
    /\ output = [m \in Movies |-> "none"]
    /\ vertical = [m \in Movies |-> FALSE]

InitRun ==
    /\ run = 1
    /\ pc = "load_config"
    /\ cur = 0
    /\ runResult = "none"
    /\ processed = 0
    /\ loc = InitLoc
    /\ result = [m \in Movies |-> "none"]
    /\ ops = {}
    /\ fails = {}
    /\ planLog = <<>>
    /\ startHad = [m \in Movies |-> {}]
    /\ rt = IdleRt
    /\ cls = IdleCls
    /\ nz = IdleNz
    /\ gui = IdleGui
    /\ sl = IdleSl

\* One run over a directory that holds both movies.
Init == InitRun /\ InitDisk(Movies, {"absent"})

\* --- control transfer helpers -------------------------------------------
Goto(label, loc2) ==
    /\ pc' = label
    /\ loc' = loc2
    /\ UNCHANGED <<run, cur, runResult, processed, result>>

ReturnFalseCounted ==
    /\ pc' = "next_entry"
    /\ loc' = InitLoc
    /\ result' = [result EXCEPT ![M] = "false"]
    /\ processed' = processed + 1
    /\ UNCHANGED <<run, cur, runResult>>

\* process_movie returns Ok(false): run_generation logs FAILED and goes on
\* (generator.rs:804-806).
ReturnFalse ==
    /\ pc' = "next_entry"
    /\ loc' = InitLoc
    /\ result' = [result EXCEPT ![M] = "false"]
    /\ UNCHANGED <<run, cur, runResult, processed>>

\* process_movie returns Err(e): `process_movie(..).await?` (generator.rs:801)
\* makes run_generation return the error at once.
ReturnErr ==
    /\ pc' = "aborted"
    /\ loc' = InitLoc
    /\ result' = [result EXCEPT ![M] = "err"]
    /\ runResult' = "err"
    /\ UNCHANGED <<run, cur, processed>>

\* process_movie returns Ok(true): processed += 1 (generator.rs:801-803).
ReturnTrue ==
    /\ pc' = "next_entry"
    /\ loc' = InitLoc
    /\ result' = [result EXCEPT ![M] = "true"]
    /\ processed' = processed + 1
    /\ UNCHANGED <<run, cur, runResult>>

Jump(label, loc2) ==
    IF label = "return_false" THEN ReturnFalse
    ELSE IF label = "return_err" THEN ReturnErr
    ELSE IF label = "return_true" THEN ReturnTrue
    ELSE Goto(label, loc2)

Op(o, i) == ops' = ops \cup {<<o, i>>}
Fail(f, i) == fails' = fails \cup {<<f, i>>}

\* --- run_generation ------------------------------------------------------
LoadConfigAfterClear ==
    /\ pc = "load_config"
    /\ \E outcome \in {"ok", "unreadable", "invalid_json", "empty_key"} :
         IF outcome = "ok"
         THEN /\ pc' = "clear_clips"
              /\ UNCHANGED <<runResult, clips>>
         ELSE /\ pc' = "aborted"
              /\ runResult' = "err"
              /\ clips' = EmptyClips
    /\ UNCHANGED <<run, cur, processed, result, inMovies, retired, srt,
                   srtMod, script, output, vertical, loc, hist, pure>>

\* Config::load (config.rs:29-46) and the `?` of generator.rs:759.
LoadConfig ==
    /\ pc = "load_config"
    /\ \E outcome \in {"ok", "unreadable", "invalid_json", "empty_key"} :
         IF outcome = "ok"
         THEN /\ pc' = "clear_clips"
              /\ UNCHANGED runResult
         ELSE /\ pc' = "aborted"
              /\ runResult' = "err"
    /\ UNCHANGED <<run, cur, processed, result, disk, loc, hist, pure>>

\* clear_directory_contents("clips") (generator.rs:774-782), then read_dir.
ClearClips ==
    /\ pc = "clear_clips"
    /\ clips' = EmptyClips
    /\ pc' = "next_entry"
    /\ UNCHANGED <<run, cur, runResult, processed, result, inMovies, retired,
                   srt, srtMod, script, output, vertical, loc, hist, pure>>

\* The entries read_dir still yields after position p.
Present(e) == IF IsMp4(e) THEN inMovies[e] ELSE TRUE
Later(p) == {q \in (p + 1)..Len(DirOrder) : Present(DirOrder[q])}
HasNext == Later(cur) # {}
NextPos == CHOOSE q \in Later(cur) : \A r \in Later(cur) : q <= r

output_already_existsNever(movie_title) == FALSE

\* generator.rs:745-748
output_already_exists(movie_title) == output[movie_title] # "none"

\* generator.rs:791-793: an entry whose extension is not mp4
EntryNotMp4 ==
    /\ pc = "next_entry"
    /\ HasNext
    /\ ~IsMp4(DirOrder[NextPos])
    /\ cur' = NextPos
    /\ UNCHANGED <<run, pc, runResult, processed, result, disk, loc, hist,
                   pure>>

\* generator.rs:795-798: the title already has a finished output
EntrySkip ==
    /\ pc = "next_entry"
    /\ HasNext
    /\ IsMp4(DirOrder[NextPos])
    /\ output_already_exists(DirOrder[NextPos])
    /\ cur' = NextPos
    /\ result' = [result EXCEPT ![DirOrder[NextPos]] = "skipped"]
    /\ ops' = {}
    /\ fails' = {}
    /\ planLog' = <<>>
    /\ UNCHANGED <<run, pc, runResult, processed, disk, loc, startHad, pure>>

\* generator.rs:800-801: process_movie is entered
EntryProcess ==
    /\ pc = "next_entry"
    /\ HasNext
    /\ IsMp4(DirOrder[NextPos])
    /\ ~output_already_exists(DirOrder[NextPos])
    /\ cur' = NextPos
    /\ pc' = "subtitle"
    /\ loc' = InitLoc
    /\ clips' = [EmptyClips EXCEPT !.title = DirOrder[NextPos]]
    /\ ops' = {}
    /\ fails' = {}
    /\ planLog' = <<>>
    /\ UNCHANGED <<run, runResult, processed, result, inMovies, retired, srt,
                   srtMod, script, output, vertical, startHad, pure>>

\* generator.rs:809-810: the directory is exhausted, Ok(processed)
RunFinish ==
    /\ pc = "next_entry"
    /\ ~HasNext
    /\ pc' = "done"
    /\ runResult' = "count"
    /\ UNCHANGED <<run, cur, processed, result, disk, loc, hist, pure>>

\* The program is started again on the same working directory.
StartRun ==
    /\ pc \in {"done", "aborted"}
    /\ run < MaxRuns
    /\ run' = run + 1
    /\ pc' = "load_config"
    /\ cur' = 0
    /\ runResult' = "none"
    /\ processed' = 0
    /\ loc' = InitLoc
    /\ ops' = {}
    /\ fails' = {}
    /\ result' = [m \in Movies |-> "none"]
    /\ planLog' = <<>>
    /\ startHad' = [m \in Movies |-> Checkpoints(m)]
    /\ UNCHANGED <<disk, pure>>

\* --- process_movie, stage 1: subtitle acquisition (generator.rs:496-505) ---
SrtPresentNever(m) == FALSE

\* file_exists(&srt_in)
SrtPresent(m) == srt[m]

SubtitleNextAlways(got) == "normalize"

\* generator.rs:498-501: a failed download returns Ok(false)
SubtitleNext(got) == IF got THEN "normalize" ELSE "return_false"

SubtitleFound ==
    /\ pc = "subtitle"
    /\ SrtPresent(M)
    /\ Goto("normalize", loc)
    /\ UNCHANGED <<disk, hist, pure>>

\* download_subtitle_srt: Err on a transport/zip/io error, Ok(false) when a
\* page or link is missing, Ok(true) once the .srt is written.
SubtitleDownload ==
    /\ pc = "subtitle"
    /\ ~SrtPresent(M)
    /\ Op("sub_fetch", 0)
    /\ \E outcome \in {"err", "false", "ok"} :
         CASE outcome = "err" ->
                /\ Fail("sub_err", 0)
                /\ ReturnErr
                /\ UNCHANGED srt
           [] outcome = "false" ->
                /\ Fail("sub_false", 0)
                /\ Jump(SubtitleNext(FALSE), loc)
                /\ UNCHANGED srt
           [] outcome = "ok" ->
                /\ srt' = [srt EXCEPT ![M] = TRUE]
                /\ Jump(SubtitleNext(TRUE), loc)
                /\ UNCHANGED fails
    /\ UNCHANGED <<inMovies, retired, srtMod, script, clips, output, vertical,
                   planLog, startHad, pure>>

\* --- stage 2: subtitle normalization (generator.rs:507-516) ---------------
NormalizeCached ==
    /\ pc = "normalize"
    /\ srtMod[M] # "absent"
    /\ Goto("script", loc)
    /\ UNCHANGED <<disk, hist, pure>>

\* convert_srt_timestamps_to_seconds (generator.rs:63-84) returns Ok(true) or
\* an io error: opening the input fails before the output is created, a read
\* or write error leaves the output file partly written.
NormalizeConvert ==
    /\ pc = "normalize"
    /\ srtMod[M] = "absent"
    /\ Op("normalize", 0)
    /\ \E outcome \in {"ok", "err_open", "err_read"} :
         CASE outcome = "ok" ->
                /\ srtMod' = [srtMod EXCEPT ![M] = "full"]
                /\ Goto("script", loc)
                /\ UNCHANGED fails
           [] outcome = "err_open" ->
                /\ Fail("normalize_err", 0)
                /\ ReturnErr
                /\ UNCHANGED srtMod
           [] outcome = "err_read" ->
                /\ srtMod' = [srtMod EXCEPT ![M] = "partial"]
                /\ Fail("normalize_err", 0)
                /\ ReturnErr
    /\ UNCHANGED <<inMovies, retired, srt, script, clips, output, vertical,
                   planLog, startHad, pure>>

\* --- stage 3: script acquisition (generator.rs:518-553) -------------------
\* generator.rs:518-523: a saved script under 200 bytes is reported and
\* removed; the result of remove_file is discarded (`let _ =`), so a file
\* that could not be removed is found by file_exists (525-527), nothing is
\* fetched, and its text is loaded as the script (542-549).
ScriptDiscard ==
    /\ pc = "script"
    /\ script[M] = "small"
    /\ Fail("script_small", 0)
    /\ \E removed \in BOOLEAN :
         IF removed
         THEN /\ script' = [script EXCEPT ![M] = "absent"]
              /\ Goto("script_fetch", [loc EXCEPT !.attempt = 1])
         ELSE /\ UNCHANGED script
              /\ Goto("plan", [loc EXCEPT !.imsdb_script = TRUE])
    /\ UNCHANGED <<inMovies, retired, srt, srtMod, clips, output, vertical,
                   ops, planLog, startHad, pure>>

\* generator.rs:525-527 and 542-546: the saved script is loaded
ScriptCached ==
    /\ pc = "script"
    /\ script[M] = "ok"
    /\ Goto("plan", [loc EXCEPT !.imsdb_script = TRUE])
    /\ UNCHANGED <<disk, hist, pure>>

\* generator.rs:528-530: no saved script, the scrape starts
ScriptMissing ==
    /\ pc = "script"
    /\ script[M] = "absent"
    /\ Goto("script_fetch", [loc EXCEPT !.attempt = 1])
    /\ UNCHANGED <<disk, hist, pure>>

\* One URL variant of download_imsdb_script_ex (generator.rs:429-440) through
\* imsdb_fetch_script_to_file (generator.rs:344-400): Ok(Some(why)) moves to
\* the next variant, Ok(None) saves the text, an http_get_text error is
\* propagated by `?` up to process_movie (generator.rs:349, 433, 530).
ScriptAttempt ==
    /\ pc = "script_fetch"
    /\ Op("script_fetch", 0)
    /\ \E outcome \in {"http_status", "no_block", "too_small", "transport", "ok"} :
         CASE outcome = "transport" ->
                /\ Fail("script_transport", 0)
                /\ ReturnErr
                /\ UNCHANGED script
           [] outcome = "ok" ->
                /\ script' = [script EXCEPT ![M] = "ok"]
                /\ Goto("plan", [loc EXCEPT !.imsdb_script = TRUE])
                /\ UNCHANGED fails
           [] OTHER ->
                IF loc.attempt < NumScriptAttempts
                THEN /\ Goto("script_fetch", [loc EXCEPT !.attempt = @ + 1])
                     /\ UNCHANGED <<script, fails>>
                ELSE /\ Fail("script_failed", 0)
                     /\ Goto("plan", loc)
                     /\ UNCHANGED script
    /\ UNCHANGED <<inMovies, retired, srt, srtMod, clips, output, vertical,
                   planLog, startHad, pure>>

\* --- stage 4: plan request (generator.rs:555-583) -------------------------
NoPayload == [shape |-> "empty", code |-> "absent", msg |-> "absent"]

\* What the planner endpoint may answer.
PlanReplies ==
    {[kind |-> "transport", payload |-> NoPayload, plan |-> <<>>],
     [kind |-> "bad_plan_json", payload |-> NoPayload, plan |-> <<>>]}
    \cup {[kind |-> k, payload |-> p, plan |-> <<>>] :
            k \in {"http_error", "no_text"}, p \in PlanPayloads}
    \cup {[kind |-> "plan", payload |-> NoPayload, plan |-> pl] : pl \in Plans}

\* openai_make_plan (openai.rs:144-184): Err, or (plan, retry flag)
openai_make_plan(reply, has_script) ==
    CASE reply.kind \in {"transport", "bad_plan_json"} ->
           [err |-> TRUE, plan |-> <<>>, retry |-> FALSE]
      [] reply.kind \in {"http_error", "no_text"} ->
           [err |-> FALSE, plan |-> <<>>,
            retry |-> has_script
                      /\ openai_resp_should_retry_without_script(reply.payload)]
      [] OTHER -> [err |-> FALSE, plan |-> reply.plan, retry |-> FALSE]

ShouldRetryPlanAnyFailure(plan_empty, retry_no_script, has_script) ==
    plan_empty /\ has_script

\* generator.rs:566
ShouldRetryPlan(plan_empty, retry_no_script, has_script) ==
    plan_empty /\ retry_no_script /\ has_script

\* What is recorded of one planner call: the subtitles and script passed,
\* the length of the plan that came back, and how the classifier judges the
\* failure payload.
PlanLogEntry(reply, with_script) ==
    [subs |-> M, script |-> with_script, len |-> Len(reply.plan),
     yielded |-> reply.kind = "plan" /\ reply.plan # <<>>,
     worthy |-> reply.kind \in {"http_error", "no_text"}
                /\ openai_resp_should_retry_without_script(reply.payload)]

\* generator.rs:580-586: an empty plan fails the movie, otherwise the concat
\* manifest is created and the clip loop starts.
PlanAccept(r, call) ==
    IF r.plan = <<>>
    THEN /\ Fail("plan_empty", 0)
         /\ Op("plan", call)
         /\ ReturnFalse
         /\ UNCHANGED clips
    ELSE /\ clips' = [clips EXCEPT !.files = @ \cup {<<"manifest", 0>>},
                                   !.manifest = <<>>]
         /\ ops' = ops \cup {<<"plan", call>>, <<"manifest_create", 0>>}
         /\ Goto("clip", [loc EXCEPT !.plan = r.plan, !.idx = 1])
         /\ UNCHANGED fails

PlanCall ==
    /\ pc = "plan"
    /\ \E reply \in PlanReplies :
         LET r == openai_make_plan(reply, loc.imsdb_script)
         IN  /\ planLog' = Append(planLog, PlanLogEntry(reply, loc.imsdb_script))
             /\ IF r.err
                THEN /\ Fail("plan_err", 1)
                     /\ Op("plan", 1)
                     /\ ReturnErr
                     /\ UNCHANGED clips
                ELSE IF ShouldRetryPlan(r.plan = <<>>, r.retry, loc.imsdb_script)
                THEN /\ Op("plan", 1)
                     /\ Goto("plan_retry", loc)
                     /\ UNCHANGED <<clips, fails>>
                ELSE PlanAccept(r, 1)
    /\ UNCHANGED <<inMovies, retired, srt, srtMod, script, output, vertical,
                   startHad, pure>>

\* generator.rs:567-577: the second request, with "" as the script
PlanRetry ==
    /\ pc = "plan_retry"
    /\ \E reply \in PlanReplies :
         LET r == openai_make_plan(reply, FALSE)
         IN  /\ planLog' = Append(planLog, PlanLogEntry(reply, FALSE))
             /\ IF r.err
                THEN /\ Fail("plan_err", 2)
                     /\ Op("plan", 2)
                     /\ ReturnErr
                     /\ UNCHANGED clips
                ELSE PlanAccept(r, 2)
    /\ UNCHANGED <<inMovies, retired, srt, srtMod, script, output, vertical,
                   startHad, pure>>

\* --- stage 5: per-clip production (generator.rs:588-637) ------------------
Entry == loc.plan[loc.idx]

ClipsNextAlways(made) == "concat"

ClipsNextReplan(made) == IF made = 0 THEN "plan" ELSE "concat"

\* generator.rs:633-636: no clip produced fails the movie
ClipsNext(made) == IF made = 0 THEN "return_false" ELSE "concat"

\* The end of one iteration of the clip loop: `continue` or the end of the
\* loop body moves to the next entry; after the last entry the loop is left.
EndEntry(fset, loc2) ==
    LET last == loc.idx = Len(loc.plan)
        none == last /\ ClipsNext(loc2.made) = "return_false"
    IN  /\ fails' = fails \cup fset
                    \cup (IF none THEN {<<"no_clips", 0>>} ELSE {})
        /\ Jump(IF last THEN ClipsNext(loc2.made) ELSE "clip",
                [loc2 EXCEPT !.idx = loc.idx + 1])

\* generator.rs:593-600
EntryRejectedNever(clip) == FALSE

EntryRejected(clip) == clip.start <= 0 \/ clip.end <= clip.start

ClipInvalid ==
    /\ pc = "clip"
    /\ EntryRejected(Entry)
    /\ EndEntry({<<"entry_invalid", loc.idx>>}, loc)
    /\ UNCHANGED <<disk, ops, planLog, startHad, pure>>

\* elevenlabs_tts_to_mp3 (elevenlabs.rs:8-48): Err on a transport error or
\* timeout, Ok(false) on a non-success status, Ok(true) with the file written.
ClipTts ==
    /\ pc = "clip"
    /\ ~EntryRejected(Entry)
    /\ Op("tts", loc.idx)
    /\ \E outcome \in {"err", "false", "ok"} :
         CASE outcome = "err" ->
                /\ Fail("tts_err", loc.idx)
                /\ ReturnErr
                /\ UNCHANGED clips
           [] outcome = "false" ->
                /\ EndEntry({<<"tts_false", loc.idx>>}, loc)
                /\ UNCHANGED clips
           [] outcome = "ok" ->
                /\ clips' = [clips EXCEPT !.files = @ \cup {<<"audio", loc.idx>>}]
                /\ Goto("probe_nar", loc)
                /\ UNCHANGED fails
    /\ UNCHANGED <<inMovies, retired, srt, srtMod, script, output, vertical,
                   planLog, startHad, pure>>

\* ffprobe_duration_seconds on the narration (generator.rs:609-615): every
\* error is caught and skips the entry; a duration is above 0.1 s.
ClipProbe ==
    /\ pc = "probe_nar"
    /\ Op("probe_nar", loc.idx)
    /\ \/ EndEntry({<<"probe_err", loc.idx>>}, loc)
       \/ \E d \in NarDurs :
             /\ Goto("cut", [loc EXCEPT !.nar_dur = d])
             /\ UNCHANGED fails
    /\ UNCHANGED <<disk, planLog, startHad, pure>>

ClipNumberRenumbered(idx, made) == made + 1

\* generator.rs:591 and 615: the clip is named after clip_index = idx + 1,
\* the 1-based position of its plan entry
ClipNumber(idx, made) == idx

\* ffmpeg_make_adjusted_clip (ffmpeg.rs:92-209): Ok(false) without a command
\* for a degenerate input; otherwise run_cmd, whose error (spawn failure or
\* non-zero exit, ffmpeg.rs:18-21) is propagated by `?` at ffmpeg.rs:207 and
\* generator.rs:620; then Ok(out_mp4.exists()).
ClipCut ==
    /\ pc = "cut"
    /\ LET r == ffmpeg_make_adjusted_clip(Entry.start, Entry.end, loc.nar_dur)
       IN  IF ~r.ok
           THEN /\ EndEntry({<<"cut_false", loc.idx>>}, loc)
                /\ UNCHANGED <<clips, ops>>
           ELSE /\ Op("cut", loc.idx)
                /\ \E outcome \in {"err", "false", "ok"} :
                     CASE outcome = "err" ->
                            /\ Fail("cut_err", loc.idx)
                            /\ ReturnErr
                            /\ UNCHANGED clips
                       [] outcome = "false" ->
                            /\ EndEntry({<<"cut_false", loc.idx>>}, loc)
                            /\ UNCHANGED clips
                       [] outcome = "ok" ->
                            /\ clips' = [clips EXCEPT
                                           !.files = @ \cup {<<"clip", loc.idx>>},
                                           !.manifest =
                                               Append(@, ClipNumber(loc.idx, loc.made))]
                            /\ EndEntry({}, [loc EXCEPT !.made = @ + 1])
    /\ UNCHANGED <<inMovies, retired, srt, srtMod, script, output, vertical,
                   planLog, startHad, pure>>

\* --- stage 6: concatenation (generator.rs:639-654) ------------------------
Concat ==
    /\ pc = "concat"
    /\ Op("concat", 0)
    /\ \E outcome \in {"err", "false", "ok"} :
         CASE outcome = "err" ->
                /\ Fail("concat_err", 0)
                /\ ReturnErr
                /\ UNCHANGED clips
           [] outcome = "false" ->
                /\ Fail("concat_false", 0)
                /\ ReturnFalse
                /\ UNCHANGED clips
           [] outcome = "ok" ->
                /\ clips' = [clips EXCEPT !.files = @ \cup {<<"tmp_concat", 0>>}]
                /\ Goto("final_dur", loc)
                /\ UNCHANGED fails
    /\ UNCHANGED <<inMovies, retired, srt, srtMod, script, output, vertical,
                   planLog, startHad, pure>>

EmptyPoolNextMix == "mix"

\* generator.rs:656-660: with no song the track is renamed into output/
EmptyPoolNext == "rename_only"

\* generator.rs:647-667: the duration of the concatenated track, then the
\* listing of backgroundmusic/ and, for a non-empty pool, the new manifest.
FinalDuration ==
    /\ pc = "final_dur"
    /\ Op("probe_final", 0)
    /\ \/ /\ Fail("final_probe", 0)
          /\ ReturnFalse
          /\ UNCHANGED clips
       \/ \E d \in FinalDurs, pool \in SongPools :
             /\ IF pool = {}
                THEN /\ Goto(EmptyPoolNext, [loc EXCEPT !.final_dur = d])
                     /\ UNCHANGED clips
                ELSE /\ Goto("bgm_loop",
                             [loc EXCEPT !.final_dur = d, !.songs = pool,
                                         !.covered = 0, !.part = 0])
                     /\ clips' = [clips EXCEPT
                                    !.files = @ \cup {<<"bgm_list", 0>>},
                                    !.bgmList = <<>>]
             /\ UNCHANGED fails
    /\ UNCHANGED <<inMovies, retired, srt, srtMod, script, output, vertical,
                   planLog, startHad, pure>>

\* --- stage 7: music assembly and mix (generator.rs:656-727) ---------------
\* `let _ = fs::rename(&tmp_concat, &out_final_only)` at generator.rs:660,
\* 713 and 721: the result of the rename is discarded.
RenameNarrationOnly ==
    /\ pc = "rename_only"
    /\ \E renamed \in BOOLEAN :
         IF renamed
         THEN /\ output' = [output EXCEPT ![M] = "narration"]
              /\ clips' = [clips EXCEPT !.files = @ \ {<<"tmp_concat", 0>>}]
         ELSE UNCHANGED <<output, clips>>
    /\ Goto("vertical", loc)
    /\ Op("place_output", 0)
    /\ UNCHANGED <<inMovies, retired, srt, srtMod, script, vertical, fails,
                   planLog, startHad, pure>>

BgmMoreOneFragment == loc.part = 0

\* generator.rs:671: the loop condition
BgmMore == loc.covered + BgmEpsMs < loc.final_dur

BgmTakeAvail(avail, need) == avail

\* generator.rs:686-687: take = min(avail, need)
BgmTake(avail, need) == IF avail < need THEN avail ELSE need

\* generator.rs:672-687: a song is drawn and probed; a probe error or a song
\* of at most 60 s restarts the loop; otherwise take = min(avail, need).
BgmPick ==
    /\ pc = "bgm_loop"
    /\ BgmMore
    /\ Op("probe_song", 0)
    /\ \E song \in loc.songs, probed \in BOOLEAN :
         LET sd == SongDurMs(song)
             avail == sd - BgmSkipMs
             need == loc.final_dur - loc.covered
             take == BgmTake(avail, need)
         IN  IF ~probed
             THEN Goto("bgm_loop", loc)
             ELSE IF sd <= BgmMinSongMs \/ avail <= BgmMinAvailMs
             THEN Goto("bgm_loop", loc)
             ELSE Goto("bgm_trim", [loc EXCEPT !.take = take])
    /\ UNCHANGED fails
    /\ UNCHANGED <<disk, planLog, startHad, pure>>

\* generator.rs:689-703: the fragment is trimmed and appended
BgmTrim ==
    /\ pc = "bgm_trim"
    /\ Op("trim", loc.part + 1)
    /\ \E outcome \in {"err", "false", "ok"} :
         CASE outcome = "err" ->
                /\ Fail("trim_err", 0)
                /\ ReturnErr
                /\ UNCHANGED clips
           [] outcome = "false" ->
                /\ Goto("bgm_loop", loc)
                /\ UNCHANGED <<clips, fails>>
           [] outcome = "ok" ->
                /\ clips' = [clips EXCEPT
                               !.files = @ \cup {<<"bgm_part", loc.part + 1>>},
                               !.bgmList = Append(@, loc.take)]
                /\ Goto(IF loc.part + 1 > MaxBgmParts THEN "bgm_concat"
                        ELSE "bgm_loop",
                        [loc EXCEPT !.covered = @ + loc.take, !.part = @ + 1])
                /\ UNCHANGED fails
    /\ UNCHANGED <<inMovies, retired, srt, srtMod, script, output, vertical,
                   planLog, startHad, pure>>

\* generator.rs:671, 704-706: the target is covered, the loop is left
BgmExit ==
    /\ pc = "bgm_loop"
    /\ ~BgmMore
    /\ Goto("bgm_concat", loc)
    /\ UNCHANGED <<disk, hist, pure>>

\* generator.rs:708-716
BgmConcat ==
    /\ pc = "bgm_concat"
    /\ Op("concat_audio", 0)
    /\ \E outcome \in {"err", "false", "ok"} :
         CASE outcome = "err" ->
                /\ Fail("bgm_concat_err", 0)
                /\ ReturnErr
                /\ UNCHANGED clips
           [] outcome = "false" ->
                /\ Fail("bgm_concat_false", 0)
                /\ Goto("rename_only", loc)
                /\ UNCHANGED clips
           [] outcome = "ok" ->
                /\ clips' = [clips EXCEPT !.files = @ \cup {<<"bgm_out", 0>>}]
                /\ Goto("mix", loc)
                /\ UNCHANGED fails
    /\ UNCHANGED <<inMovies, retired, srt, srtMod, script, output, vertical,
                   planLog, startHad, pure>>

\* generator.rs:717-726
Mix ==
    /\ pc = "mix"
    /\ Op("mix", 0)
    /\ \E outcome \in {"err", "false", "ok"} :
         CASE outcome = "err" ->
                /\ Fail("mix_err", 0)
                /\ ReturnErr
                /\ UNCHANGED <<clips, output>>
           [] outcome = "false" ->
                /\ Fail("mix_false", 0)
                /\ Goto("rename_only", loc)
                /\ UNCHANGED <<clips, output>>
           [] outcome = "ok" ->
                /\ output' = [output EXCEPT ![M] = "mixed"]
                /\ clips' = [clips EXCEPT !.files = @ \ {<<"tmp_concat", 0>>}]
                /\ Goto("vertical", loc)
                /\ UNCHANGED fails
    /\ UNCHANGED <<inMovies, retired, srt, srtMod, script, vertical, planLog,
                   startHad, pure>>

\* --- stage 8: vertical reformat (generator.rs:729-736) --------------------
\* ffmpeg_make_vertical (ffmpeg.rs:324-383) catches every error: Ok(false)
\* when a probe fails, the command fails or no file appears.
VerticalNextStrict(rendered) == IF rendered THEN "retire" ELSE "return_false"

\* generator.rs:732-736: both branches only log and fall through
VerticalNext(rendered) == "retire"

Vertical ==
    /\ pc = "vertical"
    /\ Op("vertical", 0)
    /\ \E outcome \in {"dims", "duration", "command", "no_file", "ok"} :
         IF outcome = "ok" /\ output[M] # "none"
         THEN /\ vertical' = [vertical EXCEPT ![M] = TRUE]
              /\ Jump(VerticalNext(TRUE), loc)
              /\ UNCHANGED fails
         ELSE /\ Fail("vertical", 0)
              /\ Jump(VerticalNext(FALSE), loc)
              /\ UNCHANGED vertical
    /\ UNCHANGED <<inMovies, retired, srt, srtMod, script, clips, output,
                   planLog, startHad, pure>>

\* --- stage 9: retirement (generator.rs:738-742) ---------------------------
Retire ==
    /\ pc = "retire"
    /\ Op("retire", 0)
    /\ \E renamed \in BOOLEAN :
         IF renamed
         THEN /\ inMovies' = [inMovies EXCEPT ![M] = FALSE]
              /\ retired' = [retired EXCEPT ![M] = TRUE]
         ELSE UNCHANGED <<inMovies, retired>>
    /\ ReturnTrue
    /\ UNCHANGED <<srt, srtMod, script, clips, output, vertical, fails,
                   planLog, startHad, pure>>

\* One run of run_generation.
Next ==
    \/ LoadConfig
    \/ ClearClips
    \/ EntryNotMp4
    \/ EntryProcess
    \/ RunFinish
    \/ SubtitleDownload
    \/ NormalizeConvert
    \/ ScriptMissing
    \/ ScriptAttempt
    \/ PlanCall
    \/ PlanRetry
    \/ ClipInvalid
    \/ ClipTts
    \/ ClipProbe
    \/ ClipCut
    \/ Concat
    \/ FinalDuration
    \/ RenameNarrationOnly
    \/ BgmPick
    \/ BgmTrim
    \/ BgmExit
    \/ BgmConcat
    \/ Mix
    \/ Vertical
    \/ Retire

Spec == Init /\ [][Next]_vars

\* Runs repeated on the working directory of one movie.
InitRerun == InitRun /\ InitDisk({"m1"}, {"small"})

NextRerun ==
    \/ LoadConfig
    \/ ClearClips
    \/ EntryNotMp4
    \/ EntryProcess
    \/ RunFinish
    \/ SubtitleDownload
    \/ NormalizeConvert
    \/ ScriptMissing
    \/ ScriptAttempt
    \/ PlanCall
    \/ PlanRetry
    \/ ClipInvalid
    \/ ClipTts
    \/ ClipProbe
    \/ ClipCut
    \/ Concat
    \/ FinalDuration
    \/ RenameNarrationOnly
    \/ BgmPick
    \/ BgmTrim
    \/ BgmExit
    \/ BgmConcat
    \/ Mix
    \/ Vertical
    \/ Retire
    \/ StartRun
    \/ EntrySkip
    \/ ScriptDiscard
    \/ SubtitleFound
    \/ NormalizeCached
    \/ ScriptCached

SpecRerun == InitRerun /\ [][NextRerun]_vars


\* ------------------------------------------------------------------------
\* The music assembly loop on its own (generator.rs:669-703), entered as
\* process_movie enters it after one clip was produced and concatenated.
\* ------------------------------------------------------------------------
\* Pools of backgroundmusic/ and the duration of the concatenated track.
MusicCases ==
    {[songs |-> {"long"}, final_dur |-> 5],
     [songs |-> {"long"}, final_dur |-> 70000],
     [songs |-> {"long"}, final_dur |-> 130000],
     [songs |-> {"long", "short"}, final_dur |-> 70000],
     [songs |-> {"long", "brief"}, final_dur |-> 130000],
     [songs |-> {"short"}, final_dur |-> 70000],
     [songs |-> {"brief"}, final_dur |-> 5000000]}

InitMusic ==
    /\ run = 1
    /\ pc = "bgm_loop"
    /\ cur = 1
    /\ runResult = "none"
    /\ processed = 0
    /\ \E c \in MusicCases :
         loc = [InitLoc EXCEPT !.imsdb_script = TRUE,
                               !.plan = <<[start |-> 100, end |-> 120]>>,
                               !.idx = 2, !.made = 1, !.nar_dur = 8000,
                               !.songs = c.songs, !.final_dur = c.final_dur]
    /\ result = [m \in Movies |-> "none"]
    /\ inMovies = [m \in Movies |-> TRUE]
    /\ retired = [m \in Movies |-> FALSE]
    /\ srt = [m \in Movies |-> m = "m1"]
    /\ srtMod = [m \in Movies |-> IF m = "m1" THEN "full" ELSE "absent"]
    /\ script = [m \in Movies |-> IF m = "m1" THEN "ok" ELSE "absent"]
    /\ clips = [title |-> "m1",
                files |-> {<<"manifest", 0>>, <<"audio", 1>>, <<"clip", 1>>,
                           <<"tmp_concat", 0>>, <<"bgm_list", 0>>},
                manifest |-> <<1>>, bgmList |-> <<>>]
    /\ output = [m \in Movies |-> "none"]
    /\ vertical = [m \in Movies |-> FALSE]
    /\ ops = {<<"sub_fetch", 0>>, <<"normalize", 0>>, <<"script_fetch", 0>>,
              <<"plan", 1>>, <<"manifest_create", 0>>, <<"tts", 1>>,
              <<"probe_nar", 1>>, <<"cut", 1>>, <<"concat", 0>>,
              <<"probe_final", 0>>}
    /\ fails = {}
    /\ planLog = <<[subs |-> "m1", script |-> TRUE, len |-> 1,
                    yielded |-> TRUE, worthy |-> FALSE]>>
    /\ startHad = [m \in Movies |-> {}]
    /\ rt = IdleRt
    /\ cls = IdleCls
    /\ nz = IdleNz
    /\ gui = IdleGui
    /\ sl = IdleSl

NextMusic ==
    \/ BgmPick
    \/ BgmTrim
    \/ BgmExit

\* The program is sequential and runs whenever it has a step to take.
SpecMusic == InitMusic /\ [][NextMusic]_vars /\ WF_vars(NextMusic)

\* ------------------------------------------------------------------------
\* The pure functions on their own: one query is drawn, then answered.
\* ------------------------------------------------------------------------
InitIdle ==
    /\ run = 1
    /\ pc = "idle"
    /\ cur = 0
    /\ runResult = "none"
    /\ processed = 0
    /\ loc = InitLoc
    /\ result = [m \in Movies |-> "none"]
    /\ ops = {}
    /\ fails = {}
    /\ planLog = <<>>
    /\ startHad = [m \in Movies |-> {}]
    /\ InitDisk({}, {"absent"})

RetimeStarts == {-5, 0, 1, 50, 100}
RetimeDurs == {50, 100, 101, 500, 1000, 3000, 8000, 10000, 21000, 450000}

InitRetime ==
    /\ InitIdle
    /\ cls = IdleCls
    /\ nz = IdleNz
    /\ gui = IdleGui
    /\ sl = IdleSl
    /\ rt \in {[phase |-> "query", start_s |-> s, end_s |-> s + g,
                narration_dur |-> d, out |-> <<>>] :
                  s \in RetimeStarts, g \in 0..MaxSeg, d \in RetimeDurs}

\* ffmpeg_make_adjusted_clip is applied to the query (ffmpeg.rs:100-169).
Retime ==
    /\ rt.phase = "query"
    /\ rt' = [rt EXCEPT !.phase = "answered",
                        !.out = ffmpeg_make_adjusted_clip(rt.start_s, rt.end_s,
                                                          rt.narration_dur)]
    /\ UNCHANGED <<run, pc, cur, runResult, processed, loc, result, disk, hist,
                   cls, nz, gui, sl>>

\* The window of the answer is passed to ffmpeg_make_adjusted_clip again,
\* with the same narration.
RetimeAgain ==
    /\ rt.phase = "answered"
    /\ rt.out.ok
    /\ rt' = [phase |-> "fed_back", start_s |-> rt.start_s, end_s |-> rt.end_s,
              narration_dur |-> rt.narration_dur, out |-> rt.out,
              again |-> ffmpeg_make_adjusted_clip(rt.out.use_start,
                                                  rt.out.use_end,
                                                  rt.narration_dur)]
    /\ UNCHANGED <<run, pc, cur, runResult, processed, loc, result, disk, hist,
                   cls, nz, gui, sl>>

NextRetime == Retime \/ RetimeAgain

SpecRetime == InitRetime /\ [][NextRetime]_vars

InitClassify ==
    /\ InitIdle
    /\ rt = IdleRt
    /\ nz = IdleNz
    /\ gui = IdleGui
    /\ sl = IdleSl
    /\ cls \in {[phase |-> "query", payload |-> p, has_script |-> b,
                 answer |-> FALSE, retry |-> FALSE] :
                   p \in Payloads, b \in BOOLEAN}

\* openai.rs:166 and 177: the classifier is applied to the raw body and the
\* retry flag is has_script && classifier(raw).
Classify ==
    /\ cls.phase = "query"
    /\ LET yes == openai_resp_should_retry_without_script(cls.payload)
       IN  cls' = [cls EXCEPT !.phase = "answered", !.answer = yes,
                              !.retry = cls.has_script /\ yes]
    /\ UNCHANGED <<run, pc, cur, runResult, processed, loc, result, disk, hist,
                   rt, nz, gui, sl>>

NextClassify == Classify

SpecClassify == InitClassify /\ [][NextClassify]_vars

\* ------------------------------------------------------------------------
\* convert_srt_timestamps_to_seconds on its own: a subtitle file is drawn,
\* then converted.
\* ------------------------------------------------------------------------
\* <<hours, minutes, seconds, milliseconds>> of the time stamps drawn
SrtTimes ==
    {<<0, 0, 1, 0>>, <<0, 1, 2, 999>>, <<1, 0, 0, 500>>, <<1, 59, 59, 999>>,
     <<12, 34, 56, 789>>}

Pad2(n) == <<Digits[(n \div 10) + 1], Digits[(n % 10) + 1]>>
Pad3(n) == <<Digits[(n \div 100) + 1]>> \o Pad2(n % 100)
Stamp(t) ==
    Pad2(t[1]) \o <<":">> \o Pad2(t[2]) \o <<":">> \o Pad2(t[3]) \o <<",">>
        \o Pad3(t[4])
PairLines == {Stamp(a) \o Arrow \o Stamp(b) : a \in SrtTimes, b \in SrtTimes}

OtherLines ==
    {\* ""
     <<>>,
     \* "7"
     <<"7">>,
     \* "Run, now: go"
     <<"R", "u", "n", ",", " ", "n", "o", "w", ":", " ", "g", "o">>,
     \* "<i>Hi</i>"
     <<"<", "i", ">", "H", "i", "<", "/", "i", ">">>,
     \* "<</i>i>Hi"
     <<"<", "<", "/", "i", ">", "i", ">", "H", "i">>,
     \* "a <i>b</i> c <i>d"
     <<"a", " ", "<", "i", ">", "b", "<", "/", "i", ">", " ", "c", " ", "<", "i", ">", "d">>,
     \* "so</i>"
     <<"s", "o", "<", "/", "i", ">">>,
     \* "<b>Hi</b>"
     <<"<", "b", ">", "H", "i", "<", "/", "b", ">">>,
     \* "<I>Hi</I>"
     <<"<", "I", ">", "H", "i", "<", "/", "I", ">">>,
     \* "a --> b"
     <<"a", " ", "-", "-", ">", " ", "b">>,
     \* "12:30 --> 13:30"
     <<"1", "2", ":", "3", "0", " ", "-", "-", ">", " ", "1", "3", ":", "3", "0">>,
     \* "00:00:01.000 --> 00:00:02.000"
     <<"0", "0", ":", "0", "0", ":", "0", "1", ".", "0", "0", "0", " ", "-", "-", ">", " ", "0", "0", ":", "0", "0", ":", "0", "2", ".", "0", "0", "0">>,
     \* " 00:00:01,000 --> 00:00:02,000"
     <<" ", "0", "0", ":", "0", "0", ":", "0", "1", ",", "0", "0", "0", " ", "-", "-", ">", " ", "0", "0", ":", "0", "0", ":", "0", "2", ",", "0", "0", "0">>,
     \* "00:00:01,000 --> 00:00:02,000 X1:0"
     <<"0", "0", ":", "0", "0", ":", "0", "1", ",", "0", "0", "0", " ", "-", "-", ">", " ", "0", "0", ":", "0", "0", ":", "0", "2", ",", "0", "0", "0", " ", "X", "1", ":", "0">>,
     \* "00:00:01,000"
     <<"0", "0", ":", "0", "0", ":", "0", "1", ",", "0", "0", "0">>,
     \* "61 --> 3599"
     <<"6", "1", " ", "-", "-", ">", " ", "3", "5", "9", "9">>}

\* A file: a cue number, a time stamp line and one further line.
SrtFiles == {<<<<"7">>, p, o>> : p \in PairLines, o \in OtherLines}

InitNormalize ==
    /\ InitIdle
    /\ rt = IdleRt
    /\ cls = IdleCls
    /\ gui = IdleGui
    /\ sl = IdleSl
    /\ nz \in {[phase |-> "query", file |-> f, out |-> <<>>] : f \in SrtFiles}

\* convert_srt_timestamps_to_seconds is applied to the file.
Normalize ==
    /\ nz.phase = "query"
    /\ nz' = [nz EXCEPT !.phase = "answered",
                        !.out = convert_srt_timestamps_to_seconds(nz.file)]
    /\ UNCHANGED <<run, pc, cur, runResult, processed, loc, result, disk, hist,
                   rt, cls, gui, sl>>

\* convert_srt_timestamps_to_seconds is applied to the file it wrote.
NormalizeAgain ==
    /\ nz.phase = "answered"
    /\ nz' = [phase |-> "fed_back", file |-> nz.file, out |-> nz.out,
              again |-> convert_srt_timestamps_to_seconds(nz.out)]
    /\ UNCHANGED <<run, pc, cur, runResult, processed, loc, result, disk, hist,
                   rt, cls, gui, sl>>

NextNormalize == Normalize \/ NormalizeAgain

SpecNormalize == InitNormalize /\ [][NextNormalize]_vars

\* ------------------------------------------------------------------------
\* The desktop front end (main.rs): the window loop starts generation
\* workers, each worker is a thread whose steps interleave with the window
\* loop and with the other workers.
\* ------------------------------------------------------------------------
MaxWorkers == 3
Workers == 1..MaxWorkers

\* main.rs:114, 126: the value stored in last_rc for an error
ErrorRc == 1

\* What run_generation hands back: Ok(processed) or an error.
GenerationResults ==
    {[ok |-> TRUE, code |-> n] : n \in 0..Cardinality(Movies)}
        \cup {[ok |-> FALSE, code |-> 0]}

\* lib.rs:13 and main.rs:173-177: no hook, both flags clear, no worker yet
InitGui ==
    /\ InitIdle
    /\ rt = IdleRt
    /\ cls = IdleCls
    /\ nz = IdleNz
    /\ sl = IdleSl
    /\ gui = [phase |-> "window", running |-> FALSE, last_rc |-> 0,
              LOG_HOOK |-> 0,
              worker |-> [w \in Workers |-> [at |-> "unborn", code |-> 0]]]

\* lib.rs:15-19
set_log_hook(g, hook) == [g EXCEPT !.LOG_HOOK = hook]

At(w, place) == gui.phase = "window" /\ gui.worker[w].at = place

MoveTo(g, w, place) == [g EXCEPT !.worker[w].at = place]

GuiStep(g) ==
    /\ gui' = g
    /\ UNCHANGED <<run, pc, cur, runResult, processed, loc, result, disk, hist,
                   rt, cls, nz, sl>>

CanStartAlways == TRUE

\* main.rs:91-93 and 225: the button is live and the call goes on only
\* while the running flag is false
CanStart == ~gui.running

\* main.rs:90-100: start_generation_thread, called by the window loop; the
\* workers are numbered in the order they are spawned
start_generation_thread ==
    /\ gui.phase = "window"
    /\ CanStart
    /\ \E w \in Workers :
         /\ gui.worker[w].at = "unborn"
         /\ \A v \in Workers : v < w => gui.worker[v].at # "unborn"
         /\ GuiStep(MoveTo([gui EXCEPT !.running = TRUE, !.last_rc = 0],
                           w, "set_hook"))

\* main.rs:102-108: the worker installs its hook
WorkerSetHook ==
    \E w \in Workers :
        /\ At(w, "set_hook")
        /\ GuiStep(MoveTo(set_log_hook(gui, w), w, "runtime"))

\* main.rs:109-119: the async runtime is created, or fails to be
WorkerRuntime ==
    \E w \in Workers, created \in BOOLEAN :
        /\ At(w, "runtime")
        /\ GuiStep(MoveTo(gui, w, IF created THEN "generate" ELSE "fail_rc"))

\* main.rs:112-114: the failure is reported
WorkerFailRc ==
    \E w \in Workers :
        /\ At(w, "fail_rc")
        /\ GuiStep(MoveTo([gui EXCEPT !.last_rc = ErrorRc], w, "fail_running"))

\* main.rs:115: the running flag is cleared
WorkerFailRunning ==
    \E w \in Workers :
        /\ At(w, "fail_running")
        /\ GuiStep(MoveTo([gui EXCEPT !.running = FALSE], w, "fail_unhook"))

\* main.rs:116-117: the hook is cleared and the worker returns
WorkerFailUnhook ==
    \E w \in Workers :
        /\ At(w, "fail_unhook")
        /\ GuiStep(MoveTo(set_log_hook(gui, 0), w, "done"))

\* main.rs:121: run_generation runs to its end
WorkerGenerate ==
    \E w \in Workers, r \in GenerationResults :
        /\ At(w, "generate")
        /\ GuiStep([gui EXCEPT !.worker[w] =
                       [at |-> "store_rc",
                        code |-> IF r.ok THEN r.code ELSE ErrorRc]])

\* main.rs:122-128: the count, or the error value, is stored
WorkerStoreRc ==
    \E w \in Workers :
        /\ At(w, "store_rc")
        /\ GuiStep([gui EXCEPT !.last_rc = gui.worker[w].code,
                               !.worker[w] = [at |-> "unhook", code |-> 0]])

\* main.rs:130: the hook is cleared
WorkerUnhook ==
    \E w \in Workers :
        /\ At(w, "unhook")
        /\ GuiStep(MoveTo(set_log_hook(gui, 0), w, "clear_running"))

\* main.rs:131: the running flag is cleared and the worker returns
WorkerClearRunning ==
    \E w \in Workers :
        /\ At(w, "clear_running")
        /\ GuiStep(MoveTo([gui EXCEPT !.running = FALSE], w, "done"))

NextGui ==
    \/ start_generation_thread
    \/ WorkerSetHook
    \/ WorkerRuntime
    \/ WorkerFailRc
    \/ WorkerFailRunning
    \/ WorkerFailUnhook
    \/ WorkerGenerate
    \/ WorkerStoreRc
    \/ WorkerUnhook
    \/ WorkerClearRunning

SpecGui == InitGui /\ [][NextGui]_vars

\* ------------------------------------------------------------------------
\* The command line front end (cli.rs): the status the process exits with
\* once run_generation has returned.
\* ------------------------------------------------------------------------
\* cli.rs:6, 16-17: an error leaves main through `?` and the process ends
\* with status 1; otherwise the count is handed to std::process::exit
ExitStatus == IF runResult = "count" THEN processed ELSE 1

\* ------------------------------------------------------------------------
\* parse_movie_title_slug on its own: a title is drawn, then turned into the
\* slug of its subtitle listing.
\* ------------------------------------------------------------------------
\* The first words of the titles drawn: "Rocky ", "Saw ", "Ocean's ", "(X) ", ""
TitleHeads ==
    {<<"R", "o", "c", "k", "y", " ">>,
     <<"S", "a", "w", " ">>,
     <<"O", "c", "e", "a", "n", "'", "s", " ">>,
     <<"(", "X", ")", " ">>,
     <<>>}

\* The last words of the titles drawn: "", "I", "II", "III", "IV", "V", "VI", "VIII", "XIII", "Hawaii", "iii", "Civ"
TitleTails ==
    {<<>>,
     <<"I">>,
     <<"I", "I">>,
     <<"I", "I", "I">>,
     <<"I", "V">>,
     <<"V">>,
     <<"V", "I">>,
     <<"V", "I", "I", "I">>,
     <<"X", "I", "I", "I">>,
     <<"H", "a", "w", "a", "i", "i">>,
     <<"i", "i", "i">>,
     <<"C", "i", "v">>}

InitSlug ==
    /\ InitIdle
    /\ rt = IdleRt
    /\ cls = IdleCls
    /\ nz = IdleNz
    /\ gui = IdleGui
    /\ sl \in {[phase |-> "query", title |-> h \o t, slug |-> <<>>] :
                 h \in TitleHeads, t \in TitleTails}

\* generator.rs:204: the slug of the title is computed
Slugify ==
    /\ sl.phase = "query"
    /\ sl' = [sl EXCEPT !.phase = "answered",
                        !.slug = parse_movie_title_slug(sl.title)]
    /\ UNCHANGED <<run, pc, cur, runResult, processed, loc, result, disk, hist,
                   rt, cls, nz, gui>>

SpecSlug == InitSlug /\ [][Slugify]_vars

\* ------------------------------------------------------------------------
\* Properties
\* ------------------------------------------------------------------------
\* The title whose process_movie call the history variables describe.
Last == clips.title
OpKinds == {o[1] : o \in ops}
FailKinds == {f[1] : f \in fails}

\* C1: once the configuration is loaded, no outcome of an operation on one
\* movie stops the batch: when run_generation has returned after handling a
\* movie, it has returned a count and has handled every .mp4 entry.
C1_BatchNotStopped ==
    (pc \in {"done", "aborted"} /\ \E m \in Movies : result[m] # "none")
        => /\ runResult = "count"
           /\ \A m \in Movies : result[m] # "none"

\* C2: a failure in the music stage (trim, fragment concat, mix) never aborts
\* the movie: process_movie returns success and the final output is the
\* narration-only track.
C2_MusicFailureKeepsMovie ==
    \A f \in fails :
        f[1] \in {"trim_err", "bgm_concat_err", "bgm_concat_false", "mix_err",
                  "mix_false"}
            => /\ result[Last] # "err"
               /\ result[Last] # "none"
                    => (result[Last] = "true" /\ output[Last] = "narration")

\* C3: a failure of the narration request, the narration probe or the cut for
\* plan entry i only skips entry i: the movie does not fail with an error for
\* it, and entry i+1 (if any) is still attempted.
C3_EntryFailureSkipsEntry ==
    \A f \in fails :
        f[1] \in {"tts_false", "tts_err", "probe_err", "cut_false", "cut_err"}
            => /\ result[Last] # "err"
               /\ (result[Last] # "none" /\ f[2] < planLog[Len(planLog)].len)
                    => \/ <<"tts", f[2] + 1>> \in ops
                       \/ <<"entry_invalid", f[2] + 1>> \in fails

\* C4: a hard stage failure (subtitle not acquired, empty plan, zero clips,
\* concatenation failed) makes process_movie return at once: the movie is
\* reported failed (Ok(false), or the error of the failed call) and no
\* operation of a later stage has been invoked for it.
C4_HardFailureStopsMovie ==
    /\ \A f \in fails :
         /\ f[1] \in {"sub_false", "plan_empty", "no_clips", "concat_false"}
              => result[Last] = "false"
         /\ f[1] \in {"sub_err", "concat_err"} => result[Last] = "err"
    /\ FailKinds \cap {"sub_false", "sub_err"} # {}
         => OpKinds \subseteq {"sub_fetch"}
    /\ "plan_empty" \in FailKinds
         => OpKinds \subseteq {"sub_fetch", "normalize", "script_fetch", "plan"}
    /\ "no_clips" \in FailKinds
         => OpKinds \cap {"concat", "probe_final", "probe_song", "trim",
                          "concat_audio", "mix", "vertical", "retire"} = {}
    /\ FailKinds \cap {"concat_false", "concat_err"} # {}
         => OpKinds \cap {"probe_final", "probe_song", "trim", "concat_audio",
                          "mix", "vertical", "retire"} = {}

\* A movie whose plan entries all failed after a narration request, and a
\* movie whose concatenation produced no file, have been reported failed.
C4_Witness ==
    /\ Last \in Movies
    /\ result[Last] = "false"
    /\ \/ "no_clips" \in FailKinds /\ "tts" \in OpKinds
       \/ "concat_false" \in FailKinds

\* C5: the failure of every script URL variant (non-200, no block, too small,
\* or a transport error/timeout) is soft: once the script stage is over, the
\* plan request has been issued, with an empty script.
C5_ScriptFailureIsSoft ==
    (FailKinds \cap {"script_failed", "script_transport"} # {} /\ pc # "plan")
        => /\ <<"plan", 1>> \in ops
           /\ ~planLog[1].script

\* Every artifact kind of title m was on disk when the run started.
AllPresent(m) ==
    {"srt", "srt_mod", "script", "output", "audio", "clip", "manifest"}
        \subseteq startHad[m]

\* C6 as stated: a second run over a title with all artifacts present
\* performs no external call and reports success for the movie.
C6_RerunReportsSuccess ==
    \A m \in Movies :
        (run > 1 /\ AllPresent(m) /\ result[m] # "none")
            => (ops = {} /\ result[m] = "true")

\* C6: a second run over a title with all artifacts present performs no
\* external call; the title is skipped and is not counted as processed.
C6_RerunSkips ==
    \A m \in Movies :
        (run > 1 /\ AllPresent(m) /\ result[m] # "none")
            => (ops = {} /\ result[m] = "skipped" /\ processed = 0)

C6_Witness ==
    run > 1 /\ AllPresent("m1") /\ result["m1"] = "skipped" /\ pc = "done"

C8_PlannerRetryPolicy ==
    /\ Len(planLog) <= 2
    /\ Len(planLog) = 2
         => /\ planLog[1].script
            /\ ~planLog[1].yielded
            /\ planLog[1].worthy
            /\ planLog[2].subs = planLog[1].subs
            /\ ~planLog[2].script
    /\ (Len(planLog) = 1 /\ ~planLog[1].yielded /\ pc # "plan_retry")
         => result[Last] \in {"false", "err"}
    /\ (Len(planLog) = 2 /\ ~planLog[2].yielded)
         => result[Last] \in {"false", "err"}

\* The retry was made and returned a plan.
C8_Witness == Len(planLog) = 2 /\ planLog[2].yielded

\* C9 as stated: a payload whose code is "context_length_exceeded" in any
\* letter case is retry-worthy, a payload whose code is unrelated is not.
C9_UnrelatedCodeNeverRetries ==
    (cls.phase = "answered" /\ cls.payload.shape = "error")
        => /\ cls.payload.code \in {"ctx_lower", "ctx_upper", "ctx_mixed"}
                => cls.answer
           /\ cls.payload.code \in {"auth", "rate", "quota"} => ~cls.answer

\* C9: a payload whose code is "context_length_exceeded" in any letter case
\* is retry-worthy; a payload whose code is unrelated and whose message
\* holds no trigger phrase (or is absent) is not.
C9_ClassifierOnPayload ==
    (cls.phase = "answered" /\ cls.payload.shape = "error")
        => /\ cls.payload.code \in {"ctx_lower", "ctx_upper", "ctx_mixed"}
                => cls.answer
           /\ (cls.payload.code \in {"auth", "rate", "quota"}
                 /\ cls.payload.msg \in {"key", "quota", "absent"})
                => ~cls.answer

\* An upper-case code with no message has been classified retry-worthy.
C9_Witness ==
    /\ cls.phase = "answered"
    /\ cls.payload.shape = "error"
    /\ cls.payload.code = "ctx_upper"
    /\ cls.payload.msg = "absent"
    /\ cls.answer

\* C10: for a segment longer than 0.1 s and a narration longer than 0.1 s,
\* the clip is accepted and the speed applied lies in [0.05, 20.0].
C10_SpeedWithinHardBounds ==
    (rt.phase = "answered" /\ (rt.end_s - rt.start_s) * 1000 > MinDurMs
       /\ rt.narration_dur > MinDurMs)
        => /\ rt.out.ok
           /\ FracLeq(SpeedFloor, rt.out.speed)
           /\ FracLeq(rt.out.speed, SpeedCeil)

\* A 1 s segment under a narration of more than 20 s: the floor applies.
C10_Witness ==
    /\ rt.phase = "answered"
    /\ rt.out.ok
    /\ FracLess(<<(rt.end_s - rt.start_s) * 1000, rt.narration_dur>>, SpeedFloor)
    /\ FracEq(rt.out.speed, SpeedFloor)

\* C11: when (end - start)/d <= 1.75 the clip is cut from exactly the input
\* window, at the speed (end - start)/d (as far as the hard bounds allow).
C11_UncappedWindowUnchanged ==
    (rt.phase = "answered" /\ rt.out.ok
       /\ (rt.end_s - rt.start_s) * 1000 * 4 <= 7 * rt.narration_dur)
        => /\ rt.out.use_start = rt.start_s
           /\ rt.out.use_end = rt.end_s
           /\ (rt.end_s - rt.start_s) * 1000 * 20 >= rt.narration_dur
                => FracEq(rt.out.speed,
                          <<(rt.end_s - rt.start_s) * 1000, rt.narration_dur>>)

\* The segment [50,62] with a narration of 10 s: window [50,62], speed 1.2.
C11_Witness ==
    /\ rt.phase = "answered"
    /\ rt.start_s = 50 /\ rt.end_s = 62 /\ rt.narration_dur = 10000
    /\ rt.out.ok
    /\ rt.out.use_start = 50 /\ rt.out.use_end = 62
    /\ FracEq(rt.out.speed, <<6, 5>>)

\* C12: for every accepted input, capped or not, the window that is cut
\* satisfies start <= use_start < use_end <= end.
C12_WindowContained ==
    (rt.phase = "answered" /\ rt.out.ok)
        => /\ rt.start_s <= rt.out.use_start
           /\ rt.out.use_start < rt.out.use_end
           /\ rt.out.use_end <= rt.end_s

\* A capped clip whose window lies strictly inside the planned segment.
C12_Witness ==
    /\ rt.phase = "answered"
    /\ rt.out.ok
    /\ rt.out.capped
    /\ rt.start_s < rt.out.use_start
    /\ rt.out.use_end < rt.end_s

\* C13: passing the window of an answer back with the same narration, when
\* the second call is not capped, gives the same window and the same speed.
C13_RetimeIdempotent ==
    (rt.phase = "fed_back" /\ rt.again.ok /\ ~rt.again.capped)
        => /\ rt.again.use_start = rt.out.use_start
           /\ rt.again.use_end = rt.out.use_end
           /\ FracEq(rt.again.speed, rt.out.speed)

\* A capped first answer whose window is not capped again, below 1.75.
C13_Witness ==
    /\ rt.phase = "fed_back"
    /\ rt.out.capped
    /\ rt.again.ok
    /\ ~rt.again.capped
    /\ FracLess(rt.out.speed, MAX_VIDEO_SPEEDUP)
    /\ FracEq(rt.again.speed, rt.out.speed)

\* The total length of the fragments of a music manifest.
RECURSIVE SumRange(_, _, _)
SumRange(s, lo, hi) ==
    IF lo > hi THEN 0
    ELSE IF lo = hi THEN s[lo]
    ELSE LET mid == (lo + hi) \div 2
         IN  SumRange(s, lo, mid) + SumRange(s, mid + 1, hi)
SumSeq(s) == SumRange(s, 1, Len(s))

\* C14: when the music loop has stopped, for a non-empty pool of songs all
\* longer than 60 s, the fragments of the manifest cover at least T - 0.01 s
\* or the loop stopped at the fragment ceiling.
C14_MusicCoversTarget ==
    (pc = "bgm_concat" /\ loc.songs # {}
       /\ \A s \in loc.songs : SongDurMs(s) > 60000)
        => \/ SumSeq(clips.bgmList) + 10 >= loc.final_dur
           \/ Len(clips.bgmList) >= 200

\* A 70 s track covered by two fragments of a 90 s song, and a 5000 s track
\* for which the loop stopped at the ceiling.
C14_Witness ==
    /\ pc = "bgm_concat"
    /\ \/ /\ loc.final_dur = 70000
          /\ clips.bgmList = <<50000, 20000>>
       \/ /\ loc.final_dur = 5000000
          /\ SumSeq(clips.bgmList) + 10 < loc.final_dur

\* C15: the music loop always terminates, whatever the pool and the target,
\* also when songs are rejected or trims fail.
C15_MusicLoopTerminates == <>(pc \notin {"bgm_loop", "bgm_trim"})

\* C16: the music manifest never holds more than 200 fragments.
C16_AtMost200Fragments == Len(clips.bgmList) <= 200

\* C17: process_movie returns true only after a run that produced a clip:
\* at least one plan entry was cut into a clip listed in the manifest, and
\* the concatenation was invoked and did not fail.
C17_SuccessNeedsClips ==
    \A m \in Movies :
        (Last = m /\ result[m] = "true")
            => /\ Len(clips.manifest) >= 1
               /\ \A k \in 1..Len(clips.manifest) :
                    /\ <<"cut", clips.manifest[k]>> \in ops
                    /\ <<"clip", clips.manifest[k]>> \in clips.files
               /\ <<"concat", 0>> \in ops
               /\ FailKinds \cap {"concat_false", "concat_err", "no_clips",
                                  "final_probe"} = {}

\* A movie reported as success although one of its two entries failed.
C17_Witness ==
    /\ Last \in Movies
    /\ result[Last] = "true"
    /\ Len(clips.manifest) = 1
    /\ FailKinds \cap {"tts_false", "probe_err", "cut_false"} # {}

\* C18: a plan entry with start <= 0 or end <= start is skipped: no
\* narration request, probe or cut is made for it, it adds no line to the
\* concat manifest, and the entry after it is still visited.
C18_InvalidEntrySkipped ==
    /\ \A i \in 1..Len(loc.plan) :
         (loc.plan[i].start <= 0 \/ loc.plan[i].end <= loc.plan[i].start)
            => /\ {<<"tts", i>>, <<"probe_nar", i>>, <<"cut", i>>} \cap ops = {}
               /\ \A k \in 1..Len(clips.manifest) : clips.manifest[k] # i
               /\ loc.idx > i => <<"entry_invalid", i>> \in fails
    /\ \A f \in fails :
         (f[1] = "entry_invalid" /\ f[2] < planLog[Len(planLog)].len)
            => \/ pc = "clip" /\ loc.idx = f[2] + 1
               \/ <<"tts", f[2] + 1>> \in ops
               \/ <<"entry_invalid", f[2] + 1>> \in fails

\* An entry starting at 0 was skipped and the entry after it was cut.
C18_Witness ==
    /\ Len(loc.plan) = 2
    /\ loc.plan[1].start = 0
    /\ <<"entry_invalid", 1>> \in fails
    /\ <<"tts", 1>> \notin ops
    /\ clips.manifest = <<2>>

\* The stage a position of process_movie belongs to (0: the batch driver).
StageOf(p) ==
    CASE p = "subtitle" -> 1
      [] p = "normalize" -> 2
      [] p \in {"script", "script_fetch"} -> 3
      [] p \in {"plan", "plan_retry"} -> 4
      [] p \in {"clip", "probe_nar", "cut"} -> 5
      [] p \in {"concat", "final_dur"} -> 6
      [] p \in {"rename_only", "bgm_loop", "bgm_trim", "bgm_concat", "mix"} -> 7
      [] p = "vertical" -> 8
      [] p = "retire" -> 9
      [] OTHER -> 0

\* The stage an external operation belongs to.
OpStage(o) ==
    CASE o = "sub_fetch" -> 1
      [] o = "normalize" -> 2
      [] o = "script_fetch" -> 3
      [] o = "plan" -> 4
      [] o \in {"tts", "probe_nar", "cut"} -> 5
      [] o \in {"concat", "probe_final"} -> 6
      [] o \in {"probe_song", "trim", "concat_audio", "mix", "place_output"} -> 7
      [] o = "vertical" -> 8
      [] o = "retire" -> 9
      [] OTHER -> 0

\* C19: within a movie the stages start in their order and every operation
\* is invoked by the stage the pipeline is in; in stage 5 the operations of
\* an entry are invoked while that entry is the current one and the index
\* moves on by one, to the start of the next entry; the driver starts a movie
\* only from its own loop, after every earlier movie has returned.
C19_StrictlySequential ==
    [][/\ (StageOf(pc) > 0 /\ StageOf(pc') > 0) => StageOf(pc') >= StageOf(pc)
       /\ \A o \in ops' \ ops :
            OpStage(o[1]) > 0 => OpStage(o[1]) = StageOf(pc)
       /\ \A o \in ops' \ ops :
            o[1] \in {"tts", "probe_nar", "cut"} => o[2] = loc.idx
       /\ (StageOf(pc) = 5 /\ StageOf(pc') = 5)
            => \/ loc'.idx = loc.idx
               \/ loc'.idx = loc.idx + 1 /\ pc' = "clip"
       /\ cur' # cur => pc = "next_entry"
       /\ (StageOf(pc') = 1 /\ pc # pc')
            => /\ pc = "next_entry"
               /\ \A q \in 1..(cur' - 1) :
                    IsMp4(DirOrder[q]) => result[DirOrder[q]] # "none"
      ]_vars

\* The second movie reached retirement after operations of every stage.
C19_Witness ==
    /\ pc = "retire"
    /\ M = "m2"
    /\ result["m1"] # "none"
    /\ {"sub_fetch", "normalize", "script_fetch", "plan", "tts", "probe_nar",
        "cut", "concat", "probe_final", "probe_song", "trim", "concat_audio",
        "mix", "vertical"} \subseteq OpKinds
    /\ <<"cut", 2>> \in ops

C21_VerticalFailureIgnored ==
    \A m \in Movies :
        (Last = m /\ <<"vertical", 0>> \in fails)
            => \/ pc = "retire" /\ M = m /\ result[m] = "none"
               \/ result[m] = "true" /\ <<"retire", 0>> \in ops

\* A movie returned success and was retired although its vertical render
\* failed.
C21_Witness ==
    /\ Last \in Movies
    /\ <<"vertical", 0>> \in fails
    /\ ~vertical[Last]
    /\ result[Last] = "true"
    /\ retired[Last]

\* C22: the count run_generation reports is the number of movies whose
\* pipeline returned success in this run; failed and skipped movies are not
\* counted, and a run that reaches the end of the directory returns its
\* count, zero included, not an error.
C22_CountsSuccesses ==
    /\ processed = Cardinality({m \in Movies : result[m] = "true"})
    /\ pc = "done" => runResult = "count"
    /\ runResult = "err" => (cur = 0 \/ \E m \in Movies : result[m] = "err")

\* A run in which both movies failed ended normally with the count zero.
C22_Witness ==
    /\ pc = "done"
    /\ runResult = "count"
    /\ processed = 0
    /\ \A m \in Movies : result[m] = "false"

\* C23: when the configuration cannot be loaded run_generation returns an
\* error at once: the step leaves the clips directory and every other file
\* as they were, invokes no operation and enters no movie, and nothing more
\* happens in that run.
C23_ConfigFailureAborts ==
    [][/\ (pc = "load_config" /\ pc' # "clear_clips")
            => /\ pc' = "aborted"
               /\ runResult' = "err"
               /\ UNCHANGED <<disk, ops, fails, planLog, result, processed,
                              cur>>
               /\ ops = {}
               /\ \A m \in Movies : result[m] = "none"
       /\ pc = "aborted" => (pc' = "load_config" /\ run' = run + 1)
       /\ pc = "load_config" => pc' \in {"clear_clips", "aborted"}
      ]_vars

\* A second run stopped at the configuration with the clips of the first
\* run still in place.
C23_Witness ==
    /\ run > 1
    /\ pc = "aborted"
    /\ cur = 0
    /\ runResult = "err"
    /\ clips.files # {}
    /\ ops = {}

\* C24: a saved script found under 200 bytes at the script stage is deleted
\* and a fetch is attempted in the same run; a saved script of 200 bytes or
\* more is reused and no script fetch is made.
C24_SmallScriptRefetched ==
    \A m \in Movies :
        Last = m =>
            /\ <<"script_small", 0>> \in fails
                 => /\ script[m] # "small"
                    /\ pc = "script_fetch" \/ <<"script_fetch", 0>> \in ops
            /\ "script" \in startHad[m] => "script_fetch" \notin OpKinds

\* The twelve characters from position i of s read "HH:MM:SS,mmm".
IsStampAt(s, i) ==
    /\ i + 11 <= Len(s)
    /\ \A k \in {0, 1, 3, 4, 6, 7, 9, 10, 11} : s[i + k] \in DigitChars
    /\ s[i + 2] = ":"
    /\ s[i + 5] = ":"
    /\ s[i + 8] = ","

\* The line reads "HH:MM:SS,mmm --> HH:MM:SS,mmm".
IsTimestampPair(s) ==
    /\ Len(s) = 12 + Len(Arrow) + 12
    /\ IsStampAt(s, 1)
    /\ SubSeq(s, 13, 12 + Len(Arrow)) = Arrow
    /\ IsStampAt(s, 13 + Len(Arrow))

\* HH*3600 + MM*60 + SS of the time stamp at position i, milliseconds dropped.
WholeSeconds(s, i) ==
    (10 * DigitVal(s[i]) + DigitVal(s[i + 1])) * 3600
        + (10 * DigitVal(s[i + 3]) + DigitVal(s[i + 4])) * 60
        + (10 * DigitVal(s[i + 6]) + DigitVal(s[i + 7]))

\* The positions of s that belong to an <i> or </i> tag, and s without them.
TagPositions(s) ==
    {p \in 1..Len(s) :
        \/ \E i \in (p - 2)..p : i >= 1 /\ StartsWithAt(s, i, TagOpen)
        \/ \E i \in (p - 3)..p : i >= 1 /\ StartsWithAt(s, i, TagClose)}
Untagged(s) ==
    LET kept == (1..Len(s)) \ TagPositions(s)
        nth(k) == CHOOSE p \in kept : Cardinality({q \in kept : q <= p}) = k
    IN  [k \in 1..Cardinality(kept) |-> s[nth(k)]]

C26_SpeedNeverAboveK ==
    (rt.phase \in {"answered", "fed_back"} /\ rt.out.ok)
        => LET naive == <<(rt.end_s - rt.start_s) * 1000, rt.narration_dur>>
               len == rt.out.use_end - rt.out.use_start
               rounded == <<len * 1000, rt.narration_dur>>
           IN  /\ FracLeq(rt.out.speed, MAX_VIDEO_SPEEDUP)
               /\ FracLess(MAX_VIDEO_SPEEDUP, naive)
                    => /\ rt.out.capped
                       /\ len <= rt.end_s - rt.start_s
                       /\ FracLess(MAX_VIDEO_SPEEDUP, rounded)
                            => FracEq(rt.out.speed, MAX_VIDEO_SPEEDUP)
               /\ rt.phase = "fed_back" /\ rt.again.ok
                    => FracLeq(rt.again.speed, MAX_VIDEO_SPEEDUP)

\* The rounded window alone would need more than 1.75x and the speed
\* returned is 1.75.
C26_Witness ==
    /\ rt.phase = "answered"
    /\ rt.out.ok
    /\ rt.out.capped
    /\ FracLess(MAX_VIDEO_SPEEDUP,
                <<(rt.out.use_end - rt.out.use_start) * 1000, rt.narration_dur>>)
    /\ rt.out.use_end - rt.out.use_start < rt.end_s - rt.start_s
    /\ FracEq(rt.out.speed, MAX_VIDEO_SPEEDUP)

\* C27 as stated: for every accepted query the retimed window lasts as long
\* as the narration, (use_end - use_start)/speed = d, and when the naive
\* speed is at most K the final speed is the naive speed.
C27_DurationMatches ==
    (rt.phase = "answered" /\ rt.out.ok)
        => LET naive == <<(rt.end_s - rt.start_s) * 1000, rt.narration_dur>>
               fit == <<(rt.out.use_end - rt.out.use_start) * 1000,
                        rt.narration_dur>>
           IN  /\ FracEq(rt.out.speed, fit)
               /\ FracLeq(naive, MAX_VIDEO_SPEEDUP) => FracEq(rt.out.speed, naive)

\* C27: the speed returned is the speed at which the window cut lasts as
\* long as the narration, unless a clamp replaced it: a window that would
\* need more than K plays at K and lasts longer than the narration, one that
\* would need less than 0.05 plays at 0.05 and lasts shorter; when the naive
\* speed lies in [0.05, K] the planned window is kept and played at it.
C27_DurationMatchesUnlessClamped ==
    (rt.phase = "answered" /\ rt.out.ok)
        => LET naive == <<(rt.end_s - rt.start_s) * 1000, rt.narration_dur>>
               fit == <<(rt.out.use_end - rt.out.use_start) * 1000,
                        rt.narration_dur>>
           IN  /\ (FracLeq(SpeedFloor, fit) /\ FracLeq(fit, MAX_VIDEO_SPEEDUP))
                    => FracEq(rt.out.speed, fit)
               /\ FracLess(MAX_VIDEO_SPEEDUP, fit)
                    => FracEq(rt.out.speed, MAX_VIDEO_SPEEDUP)
               /\ FracLess(fit, SpeedFloor) => FracEq(rt.out.speed, SpeedFloor)
               /\ (FracLeq(SpeedFloor, naive) /\ FracLeq(naive, MAX_VIDEO_SPEEDUP))
                    => /\ FracEq(rt.out.speed, naive)
                       /\ rt.out.use_start = rt.start_s
                       /\ rt.out.use_end = rt.end_s

\* Segment [100,102] with a 1 s narration: the window stays [100,102] after
\* rounding and plays at 1.75, so it lasts 2/1.75 s, longer than 1 s.
C27_Witness ==
    /\ rt.phase = "answered"
    /\ rt.start_s = 100
    /\ rt.end_s = 102
    /\ rt.narration_dur = 1000
    /\ rt.out.ok
    /\ rt.out.use_start = 100
    /\ rt.out.use_end = 102
    /\ rt.out.speed = MAX_VIDEO_SPEEDUP

\* The whole number of seconds nearest to x ticks, the farther from zero of
\* two equally near.
Nearest(x) ==
    LET near == {n \in -10..(20 + MaxSeg + 100) :
                    /\ 2 * (n * TicksPerSec - x) <= TicksPerSec
                    /\ 2 * (x - n * TicksPerSec) <= TicksPerSec}
    IN  CHOOSE n \in near : \A m \in near : m * m <= n * n

\* C28: on the capped path the window cut is
\* [round(c - w/2), round(c + w/2)] with c = (start + end)/2 and
\* w = max(1, min(1.75*d, end - start)), and the speed is
\* (use_end - use_start)/d, or 1.75 if that is more.
C28_CappedWindowCentered ==
    (rt.phase = "answered" /\ rt.out.ok
        /\ FracLess(MAX_VIDEO_SPEEDUP,
                    <<(rt.end_s - rt.start_s) * 1000, rt.narration_dur>>))
        => LET seg == (rt.end_s - rt.start_s) * TicksPerSec
               kd == (rt.narration_dur * TicksPerMs * 7) \div 4
               least == IF kd < seg THEN kd ELSE seg
               w == IF least > TicksPerSec THEN least ELSE TicksPerSec
               c2 == (rt.start_s + rt.end_s) * TicksPerSec
               fit == <<(rt.out.use_end - rt.out.use_start) * 1000,
                        rt.narration_dur>>
           IN  /\ rt.out.use_start = Nearest((c2 - w) \div 2)
               /\ rt.out.use_end = Nearest((c2 + w) \div 2)
               /\ IF FracLess(MAX_VIDEO_SPEEDUP, fit)
                  THEN FracEq(rt.out.speed, MAX_VIDEO_SPEEDUP)
                  ELSE FracEq(rt.out.speed, fit)

\* Segment [100,120] with an 8 s narration is cut as [103,117] at 1.75.
C28_Witness ==
    /\ rt.phase = "answered"
    /\ rt.start_s = 100
    /\ rt.end_s = 120
    /\ rt.narration_dur = 8000
    /\ rt.out.ok
    /\ rt.out.capped
    /\ rt.out.use_start = 103
    /\ rt.out.use_end = 117
    /\ rt.out.speed = <<14000, 8000>>

\* C29: each fragment of the music manifest takes min(sd - 40, T - covered)
\* seconds of a song of the pool lasting sd > 60 s, covered being the sum of
\* the fragments before it; with one 90 s song and T = 130 s the loop is
\* left with the fragments 50 s, 50 s, 30 s, covered = 130 s and the
\* counter at 3.
C29_FragmentLengths ==
    /\ pc \in {"bgm_loop", "bgm_trim", "bgm_concat"}
         => \A k \in 1..Len(clips.bgmList) :
              \E song \in loc.songs :
                 LET before == SumRange(clips.bgmList, 1, k - 1)
                     avail == SongDurMs(song) - 40000
                     need == loc.final_dur - before
                 IN  /\ SongDurMs(song) > 60000
                     /\ clips.bgmList[k] = IF avail < need THEN avail ELSE need
    /\ (pc = "bgm_concat" /\ loc.songs = {"long"} /\ loc.final_dur = 130000)
         => /\ clips.bgmList = <<50000, 50000, 30000>>
            /\ loc.covered = 130000
            /\ loc.part = 3

\* The loop was left after the three fragments of the scenario, one trim
\* having been repeated.
C29_Witness ==
    /\ pc = "bgm_concat"
    /\ loc.songs = {"long"}
    /\ loc.final_dur = 130000
    /\ clips.bgmList = <<50000, 50000, 30000>>
    /\ loc.covered = 130000

\* C30: the concat manifest holds one line for each clip produced and no
\* other: its lines carry the 1-based positions of their plan entries,
\* strictly increasing, each the position of an entry whose cut was run and
\* left its clip file; every clip file has its line; and the number of
\* lines is the count of produced clips.
C30_ManifestListsClips ==
    LET mf == clips.manifest
    IN  /\ \A k \in 1..(Len(mf) - 1) : mf[k] < mf[k + 1]
        /\ \A k \in 1..Len(mf) :
             /\ mf[k] >= 1
             /\ <<"cut", mf[k]>> \in ops
             /\ <<"clip", mf[k]>> \in clips.files
             /\ \A f \in fails : f[2] = mf[k] => f[1] \notin
                    {"entry_invalid", "tts_false", "tts_err", "probe_err",
                     "cut_false", "cut_err"}
        /\ \A a \in clips.files :
             a[1] = "clip" => \E k \in 1..Len(mf) : mf[k] = a[2]
        /\ StageOf(pc) >= 5
             => /\ Len(mf) = loc.made
                /\ \A k \in 1..Len(mf) : mf[k] <= Len(loc.plan)

\* The first entry failed at the narration and the second was cut: the one
\* line of the manifest carries the number 2.
C30_Witness ==
    /\ pc = "concat"
    /\ Len(loc.plan) = 2
    /\ <<"tts_false", 1>> \in fails
    /\ clips.manifest = <<2>>
    /\ loc.made = 1
    /\ <<"clip", 1>> \notin clips.files

C32_FailureLeavesNoOutput ==
    \A m \in Movies :
        result[m] = "false"
            => /\ output[m] = "none"
               /\ ~vertical[m]
               /\ inMovies[m]
               /\ ~retired[m]
               /\ ~output_already_exists(m)

\* A movie that an earlier run left with a manifest and no output failed
\* again in a later run.
C32_Witness ==
    /\ run > 1
    /\ "manifest" \in startHad["m1"]
    /\ "output" \notin startHad["m1"]
    /\ result["m1"] = "false"
    /\ <<"concat_false", 0>> \in fails

\* C33: a movie for which process_movie returned true has its output file
\* output/<title>.mp4 and its source has left movies/ for movies_retired/,
\* whether or not the renames on the way succeeded.
C33_SuccessMeansDelivered ==
    \A m \in Movies :
        result[m] = "true"
            => /\ output[m] # "none"
               /\ retired[m]
               /\ ~inMovies[m]

BgmLoopStates == {"bgm_loop", "bgm_trim", "bgm_concat"}

\* C34: while the music is assembled, covered stays within the target and
\* the music manifest has one line per counted fragment; a step of the loop
\* that appends a fragment adds one line and raises covered by a positive
\* take, and every other step of the loop (a song passed over, a failed
\* trim) leaves covered, the counter and the manifest as they are.
C34_MusicLoopInvariants ==
    [][(pc \in BgmLoopStates /\ pc' \in BgmLoopStates)
          => /\ loc'.covered <= loc'.final_dur
             /\ Len(clips'.bgmList) = loc'.part
             /\ IF loc'.part # loc.part
                THEN /\ loc'.part = loc.part + 1
                     /\ loc'.covered > loc.covered
                     /\ clips'.bgmList = Append(clips.bgmList,
                                                loc'.covered - loc.covered)
                ELSE /\ loc'.covered = loc.covered
                     /\ clips'.bgmList = clips.bgmList]_vars

\* Two fragments are appended and the target is not yet covered.
C34_Witness ==
    /\ pc = "bgm_loop"
    /\ loc.part = 2
    /\ Len(clips.bgmList) = 2
    /\ 0 < loc.covered
    /\ loc.covered < loc.final_dur

\* The places of a worker from its spawn until it clears the running flag.
InFlight ==
    {"set_hook", "runtime", "generate", "store_rc", "unhook", "clear_running",
     "fail_rc", "fail_running"}

\* C35: at most one worker is between its spawn and the point where it
\* clears the running flag (after run_generation has returned or the runtime
\* could not be created), and the flag is true for as long as there is one.
C35_OneWorkerAtATime ==
    gui.phase = "window"
        => /\ Cardinality({w \in Workers : gui.worker[w].at \in InFlight}) <= 1
           /\ (\E w \in Workers : gui.worker[w].at \in InFlight) => gui.running

\* A second worker is inside run_generation while the first, whose runtime
\* failed, has not yet returned.
C35_Witness ==
    /\ gui.phase = "window"
    /\ gui.worker[1].at = "fail_unhook"
    /\ gui.worker[2].at = "generate"
    /\ gui.running

\* C36: a worker that has installed its hook and has not reached its own
\* cleanup finds its hook installed.
C36_HookStaysInstalled ==
    gui.phase = "window"
        => \A w \in Workers :
             gui.worker[w].at \in {"runtime", "generate", "store_rc", "unhook"}
                 => gui.LOG_HOOK = w

\* C37: once run_generation has returned, the command line process exits
\* with status 0 exactly when the run completed without error, whatever the
\* number of movies produced.
C37_ExitZeroIffNoError ==
    runResult # "none" => (ExitStatus = 0 <=> runResult = "count")

\* A normalized file: no line holds an italics tag and no line is a
\* "HH:MM:SS,mmm --> HH:MM:SS,mmm" pair.
IsNormalized(lines) ==
    \A k \in 1..Len(lines) :
        /\ TagPositions(lines[k]) = {}
        /\ ~IsTimestampPair(lines[k])

\* C38: convert_srt_timestamps_to_seconds applied to a normalized file
\* writes the lines it read.
C38_NormalizationIdempotent ==
    (nz.phase = "fed_back" /\ IsNormalized(nz.out)) => nz.again = nz.out

\* The file written from 01:59:59,999 --> 12:34:56,789 and a line in italics
\* was converted a second time.
C38_Witness ==
    /\ nz.phase = "fed_back"
    /\ IsNormalized(nz.out)
    /\ nz.out # nz.file
    /\ nz.out[2] = <<"7", "1", "9", "9">> \o Arrow \o <<"4", "5", "2", "9", "6">>
    /\ nz.out[3] = <<"H", "i">>
    /\ nz.again[2] = nz.out[2]

\* The suffix the trailing roman numeral of a slug calls for.
SequelSuffix(base) ==
    IF EndsWith(base, <<"i", "i", "i">>) THEN <<"-", "3">>
    ELSE IF EndsWith(base, <<"i", "i">>) THEN <<"-", "2">>
    ELSE IF EndsWith(base, <<"i", "v">>) THEN <<"-", "4">>
    ELSE <<>>

\* C39: the slug of a title is its lowered, hyphenated form followed by
\* exactly one suffix: "-3" after "iii", "-2" after "ii" that is not "iii",
\* "-4" after "iv", and nothing otherwise.
C39_OneSuffixByNumeral ==
    sl.phase = "answered"
        => sl.slug = SlugBase(sl.title) \o SequelSuffix(SlugBase(sl.title))

====
